---- MODULE Spec2Model ----
(***************************************************************************)
(* Numerical kernel of optimize-me-js: src/src/matrix/matrixOperations.js  *)
(* and src/src/matrix/signalProcessing.js.                                 *)
(*                                                                         *)
(* Numbers.  A JavaScript number is modelled as an exact real number, not  *)
(* as an IEEE-754 double: rounding error is not modelled, and the          *)
(* non-finite values Infinity, -Infinity and NaN are kept as values.  A    *)
(* finite number is a triple <<n, d, e>> standing for                      *)
(*        (n / d) * 10^(-TolDigits * e),     d > 0, gcd(n, d) = 1,         *)
(* so that the tolerance 1e-10 of the source and numbers well below and    *)
(* above it are representable with small integers.  <<1, 0, 0>> is         *)
(* Infinity, <<-1, 0, 0>> is -Infinity and <<0, 0, 0>> is NaN.             *)
(*                                                                         *)
(* Arrays are sequences: index i of the source is index i + 1 here.        *)
(***************************************************************************)
EXTENDS Integers, Sequences, FiniteSets, TLC

VARIABLES pc, A, b, x, ret

vars == <<pc, A, b, x, ret>>

----------------------------------------------------------------------------
(* Bounds of the checked instances.                                        *)

\* matrices of up to two rows have entries k * scale with k in -MaxVal..MaxVal
\* and scale in Scales
MaxVal == 2

\* matrices of three rows have entries in 0..MaxVal3
MaxVal3 == 1

\* right-hand sides have entries 0 and k with k in 0..MaxRhs
MaxRhs == 1

\* signals of samples 0 and 1 have up to MaxLen samples
MaxLen == 12

\* signals of up to MaxShortLen samples have samples in -MaxSample..MaxSample
MaxShortLen == 4

MaxSample == 2

\* pairs of signals of samples 0 and 1 with an impulse or a constant have up
\* to MaxPairLen samples, pairs of samples -1, 0 and 1 up to MaxPairShort
MaxPairLen == 8

MaxPairShort == 4

\* convolution1d: signals of up to MaxSignalLen and kernels of up to
\* MaxKernelLen entries, the entries -1, 0 and 1
MaxSignalLen == 4

MaxKernelLen == 3

\* images have up to MaxImageSide rows and columns and up to MaxPixels
\* pixels; the kernels passed to convolution2d have up to MaxKernelSide rows
MaxImageSide == 3

MaxPixels == 9

MaxKernelSide == 3

\* createGaussianKernel and gaussianBlur are called with sizes up to
\* MaxKernelSize and with the sigmas for which exp(-1 / (2 sigma^2)) is 1/m,
\* m in 1..MaxBase, besides the sigmas 0 and NaN
MaxKernelSize == 4

MaxBase == 2

\* imageRotation is called with the angles of cosine c / h and sine s / h for
\* integers c, s and h <= MaxHypotenuse
MaxHypotenuse == 5

\* histogramEqualization is called on images of up to MaxGreySide rows and
\* columns and up to MaxGreyPixels pixels
MaxGreySide == 3

MaxGreyPixels == 4

\* rollingMean is called on series of up to MaxSeriesLen entries -1, 0 and 1
\* with windows of 1 to MaxWindow
MaxSeriesLen == 5

MaxWindow == 4

\* matrixMultiply, matrixAdd, matrixTranspose and dotProduct are called on
\* matrices of up to MaxDim rows and columns and up to MaxEntries entries
MaxDim == 2

MaxEntries == 4

\* vectorNormalize is called on vectors of up to MaxVecLen entries
\* k * scale with k in -MaxCoord..MaxCoord and scale in Scales
MaxVecLen == 3

MaxCoord == 4

\* the calls of fft the engine's call stack holds before it throws a RangeError
MaxStack == 6

\* the two eliminations are run in double-precision arithmetic on the two-row
\* matrices of the integers 0..MaxDoubleEntry
MaxDoubleEntry == 2

----------------------------------------------------------------------------
(* Exact arithmetic on numbers.                                            *)

\* decimal digits of the tolerance literal 1e-10
TolDigits == 10

Zero == <<0, 1, 0>>

One == <<1, 1, 0>>

PosInf == <<1, 0, 0>>

NegInf == <<-1, 0, 0>>

NaN == <<0, 0, 0>>

\* the literal 1e-10
Tol == <<1, 1, 1>>

IsNaN(q) == q = NaN

IsInf(q) == q = PosInf \/ q = NegInf

IsFinite(q) == q[2] # 0

IAbs(i) == IF i < 0 THEN -i ELSE i

RECURSIVE Gcd(_, _)
Gcd(i, j) == IF j = 0 THEN i ELSE Gcd(j, i % j)

RECURSIVE Pow10(_)
Pow10(k) == IF k = 0 THEN 1 ELSE 10 * Pow10(k - 1)

\* floor(v / 10^k) for v >= 0
RECURSIVE DivPow10(_, _)
DivPow10(v, k) == IF k = 0 \/ v = 0 THEN v ELSE DivPow10(v \div 10, k - 1)

\* the number (n / d) * 10^(-TolDigits * e) in lowest terms, d # 0
Norm(n, d, e) ==
  IF n = 0 THEN Zero
  ELSE LET g == Gcd(IAbs(n), IAbs(d))
           s == IF d < 0 THEN -1 ELSE 1
       IN  <<s * (n \div g), s * (d \div g), e>>

FromInt(k) == Norm(k, 1, 0)

Sign(q) == IF q[1] > 0 THEN 1 ELSE IF q[1] < 0 THEN -1 ELSE 0

Neg(q) == <<-q[1], q[2], q[3]>>

\* Math.abs
Abs(q) == <<IAbs(q[1]), q[2], q[3]>>

\* p + q
Add(p, q) ==
  IF IsNaN(p) \/ IsNaN(q) THEN NaN
  ELSE IF IsInf(p) THEN (IF IsInf(q) /\ q # p THEN NaN ELSE p)
  ELSE IF IsInf(q) THEN q
  ELSE IF p = Zero THEN q
  ELSE IF q = Zero THEN p
  ELSE IF p[3] = q[3] THEN Norm(p[1] * q[2] + q[1] * p[2], p[2] * q[2], p[3])
  ELSE IF p[3] < q[3]
       THEN LET qd == q[2] * Pow10(TolDigits * (q[3] - p[3]))
            IN  Norm(p[1] * qd + q[1] * p[2], p[2] * qd, p[3])
       ELSE LET pd == p[2] * Pow10(TolDigits * (p[3] - q[3]))
            IN  Norm(p[1] * q[2] + q[1] * pd, pd * q[2], q[3])

\* p - q
Sub(p, q) == Add(p, Neg(q))

\* p * q
Mul(p, q) ==
  IF IsNaN(p) \/ IsNaN(q) THEN NaN
  ELSE IF IsInf(p) \/ IsInf(q)
       THEN (IF Sign(p) * Sign(q) = 0 THEN NaN
             ELSE IF Sign(p) * Sign(q) > 0 THEN PosInf ELSE NegInf)
  ELSE Norm(p[1] * q[1], p[2] * q[2], p[3] + q[3])

\* p / q  (the sign of a zero is not modelled: x / 0 takes the sign of x)
Div(p, q) ==
  IF IsNaN(p) \/ IsNaN(q) THEN NaN
  ELSE IF IsInf(p)
       THEN (IF IsInf(q) THEN NaN
             ELSE IF Sign(p) * Sign(q) >= 0 THEN p ELSE Neg(p))
  ELSE IF IsInf(q) THEN Zero
  ELSE IF q = Zero
       THEN (IF p = Zero THEN NaN ELSE IF Sign(p) > 0 THEN PosInf ELSE NegInf)
  ELSE Norm(p[1] * q[2], p[2] * q[1], p[3] - q[3])

\* p < q for finite p > 0, q > 0
PosLt(p, q) ==
  IF p[3] = q[3] THEN p[1] * q[2] < q[1] * p[2]
  ELSE IF p[3] > q[3]
       THEN DivPow10(p[1] * q[2] - 1, TolDigits * (p[3] - q[3])) < q[1] * p[2]
       ELSE p[1] * q[2] <= DivPow10(q[1] * p[2] - 1, TolDigits * (q[3] - p[3]))

\* p < q  (false when either is NaN)
Lt(p, q) ==
  IF IsNaN(p) \/ IsNaN(q) THEN FALSE
  ELSE IF p = q THEN FALSE
  ELSE IF IsInf(p) THEN p = NegInf
  ELSE IF IsInf(q) THEN q = PosInf
  ELSE IF Sign(p) # Sign(q) THEN Sign(p) < Sign(q)
  ELSE IF Sign(p) > 0 THEN PosLt(p, q)
  ELSE PosLt(Neg(q), Neg(p))

\* p > q
Gt(p, q) == Lt(q, p)

----------------------------------------------------------------------------
(* src/src/matrix/matrixOperations.js                                      *)

\* outcome of a call: a returned value or a thrown Error
Return(v) == [status |-> "return", value |-> v]

Throw(msg) == [status |-> "throw", value |-> msg]

\* Array(n).fill(0)
ZeroArray(n) == [j \in 1..n |-> Zero]

\* sum of f[lo], ..., f[hi] accumulated left to right from acc
RECURSIVE SumFrom(_, _, _, _)
SumFrom(f, lo, hi, acc) ==
  IF lo > hi THEN acc ELSE SumFrom(f, lo + 1, hi, Add(acc, f[lo]))

identityMatrix(n) == [i \in 1..n |-> [j \in 1..n |-> IF i = j THEN One ELSE Zero]]

\* the products summed from k = 1 on
matrixMultiply_FromSecond(M, N) ==
  IF Len(M) = 0 \/ Len(N) = 0 THEN Throw("TypeError")
  ELSE LET rowsA == Len(M)
           colsA == Len(M[1])
           colsB == Len(N[1])
       IN  IF colsB > 0 /\ colsA > Len(N) THEN Throw("TypeError")
           ELSE Return([i \in 1..rowsA |-> [j \in 1..colsB |->
                  SumFrom([k \in 1..colsA |-> Mul(M[i][k], N[k][j])], 2, colsA, Zero)]])

\* A[0].length of a non-empty array of rows; reading .length of A[0] throws a
\* TypeError when A is empty, and so does reading B[k][j] at line 23 when B
\* has no row k, which happens when B has columns and fewer rows than A has
\* columns.  The rows of B beyond the columns of A are not read.
matrixMultiply(M, N) ==
  IF Len(M) = 0 \/ Len(N) = 0 THEN Throw("TypeError")
  ELSE LET rowsA == Len(M)
           colsA == Len(M[1])
           colsB == Len(N[1])
       IN  IF colsB > 0 /\ colsA > Len(N) THEN Throw("TypeError")
           ELSE Return([i \in 1..rowsA |-> [j \in 1..colsB |->
                  SumFrom([k \in 1..colsA |-> Mul(M[i][k], N[k][j])], 1, colsA, Zero)]])

\* lines 38-48
dotProduct(u, v) ==
  IF Len(u) # Len(v) THEN Throw("Vectors must have the same length")
  ELSE Return(SumFrom([i \in 1..Len(u) |-> Mul(u[i], v[i])], 1, Len(u), Zero))

\* the first row from the pivot row on with a nonzero entry in the column
RECURSIVE FindPivot_FirstNonzero(_, _, _, _, _)
FindPivot_FirstNonzero(augmented, col, row, maxRow, n) ==
  IF row > n THEN maxRow
  ELSE FindPivot_FirstNonzero(augmented, col, row + 1,
         IF augmented[maxRow][col] = Zero /\ augmented[row][col] # Zero
         THEN row ELSE maxRow, n)

\* the pivot search of lines 68-73 (and 212-217): rows row..n against maxRow
RECURSIVE FindPivot(_, _, _, _, _)
FindPivot(augmented, col, row, maxRow, n) ==
  IF row > n THEN maxRow
  ELSE FindPivot(augmented, col, row + 1,
                 IF Gt(Abs(augmented[row][col]), Abs(augmented[maxRow][col]))
                 THEN row ELSE maxRow, n)

\* [augmented[col], augmented[maxRow]] = [augmented[maxRow], augmented[col]]
SwapRows(augmented, col, maxRow) ==
  [augmented EXCEPT ![col] = augmented[maxRow], ![maxRow] = augmented[col]]

\* the comparison of the pivot test reversed
BelowTolerance_Reversed(q) == Gt(Abs(q), Tol)

\* the pivot test of lines 79, 167 and 222
BelowTolerance(q) == Lt(Abs(q), Tol)

\* the pivot row is left as it is
ScalePivotRow_Kept(augmented, col, n) == augmented

\* lines 84-87: the pivot row divided by the pivot
ScalePivotRow(augmented, col, n) ==
  LET pivot == augmented[col][col]
  IN  [augmented EXCEPT ![col] = [j \in 1..(2 * n) |-> Div(augmented[col][j], pivot)]]

\* only the rows below the pivot row are eliminated
EliminateColumn_BelowOnly(augmented, col, n) ==
  [row \in 1..n |->
     IF row > col
     THEN LET factor == augmented[row][col]
          IN  [j \in 1..(2 * n) |->
                 Sub(augmented[row][j], Mul(factor, augmented[col][j]))]
     ELSE augmented[row]]

\* lines 90-97: every other row minus factor times the pivot row
EliminateColumn(augmented, col, n) ==
  [row \in 1..n |->
     IF row # col
     THEN LET factor == augmented[row][col]
          IN  [j \in 1..(2 * n) |->
                 Sub(augmented[row][j], Mul(factor, augmented[col][j]))]
     ELSE augmented[row]]

\* the loop of lines 66-98 from column col on
RECURSIVE GaussJordan(_, _, _)
GaussJordan(augmented, col, n) ==
  IF col > n THEN Return(augmented)
  ELSE LET maxRow  == FindPivot(augmented, col, col + 1, col, n)
           swapped == SwapRows(augmented, col, maxRow)
       IN  IF BelowTolerance(swapped[col][col])
           THEN Throw("Matrix is singular and cannot be inverted")
           ELSE GaussJordan(EliminateColumn(ScalePivotRow(swapped, col, n), col, n),
                            col + 1, n)

matrixInverse(matrix) ==
  LET n         == Len(matrix)
      augmented == [i \in 1..n |->
                      matrix[i] \o [j \in 1..n |-> IF j = i THEN One ELSE Zero]]
      reduced   == GaussJordan(augmented, 1, n)
  IN  IF reduced.status = "throw" THEN reduced
      ELSE Return([i \in 1..n |-> SubSeq(reduced.value[i], n + 1, 2 * n)])

\* matrix.slice(1).map(row => row.filter((_, j) => j !== col)), col counted from 1
Minor(matrix, col) ==
  [i \in 1..(Len(matrix) - 1) |->
     [j \in 1..(Len(matrix[i + 1]) - 1) |->
        IF j < col THEN matrix[i + 1][j] ELSE matrix[i + 1][j + 1]]]

\* every cofactor taken with sign +1
CofactorSign_AlwaysPlus(col) == One

\* col % 2 === 0 ? 1 : -1 for the source's column index col - 1
CofactorSign(col) == IF (col - 1) % 2 = 0 THEN One ELSE Neg(One)

RECURSIVE matrixDeterminant(_)
RECURSIVE DetLoop(_, _, _)
\* the loop of lines 122-130 from column col on, det accumulated so far
DetLoop(matrix, col, det) ==
  IF col > Len(matrix) THEN det
  ELSE DetLoop(matrix, col + 1,
               Add(det, Mul(Mul(CofactorSign(col), matrix[1][col]),
                            matrixDeterminant(Minor(matrix, col)))))

matrixDeterminant(matrix) ==
  LET n == Len(matrix)
  IN  IF n = 1 THEN matrix[1][1]
      ELSE IF n = 2
           THEN Sub(Mul(matrix[1][1], matrix[2][2]), Mul(matrix[1][2], matrix[2][1]))
           ELSE DetLoop(matrix, 1, Zero)

\* the sum of the upper pass stops one term early
RECURSIVE LuUpper_SumShort(_, _, _, _, _)
LuUpper_SumShort(M, L, U, j, i) ==
  IF i > j THEN U
  ELSE LET sum == SumFrom([k \in 1..(i - 2) |-> Mul(L[i][k], U[k][j])], 1, i - 2, Zero)
       IN  LuUpper_SumShort(M, L, [U EXCEPT ![i][j] = Sub(M[i][j], sum)], j, i + 1)

\* lines 153-159: U[i][j] for i = i..j of column j
RECURSIVE LuUpper(_, _, _, _, _)
LuUpper(M, L, U, j, i) ==
  IF i > j THEN U
  ELSE LET sum == SumFrom([k \in 1..(i - 1) |-> Mul(L[i][k], U[k][j])], 1, i - 1, Zero)
       IN  LuUpper(M, L, [U EXCEPT ![i][j] = Sub(M[i][j], sum)], j, i + 1)

\* the pivot test of lines 167-169 left out
RECURSIVE LuLower_NoPivotCheck(_, _, _, _, _, _)
LuLower_NoPivotCheck(M, L, U, j, i, n) ==
  IF i > n THEN Return(L)
  ELSE LET sum == SumFrom([k \in 1..(j - 1) |-> Mul(L[i][k], U[k][j])], 1, j - 1, Zero)
       IN  LuLower_NoPivotCheck(M, [L EXCEPT ![i][j] = Div(Sub(M[i][j], sum), U[j][j])],
                                U, j, i + 1, n)

\* lines 162-171: L[i][j] for i = i..n of column j, or the thrown error
RECURSIVE LuLower(_, _, _, _, _, _)
LuLower(M, L, U, j, i, n) ==
  IF i > n THEN Return(L)
  ELSE LET sum == SumFrom([k \in 1..(j - 1) |-> Mul(L[i][k], U[k][j])], 1, j - 1, Zero)
       IN  IF BelowTolerance(U[j][j])
           THEN Throw("Zero pivot encountered")
           ELSE LuLower(M, [L EXCEPT ![i][j] = Div(Sub(M[i][j], sum), U[j][j])],
                        U, j, i + 1, n)

\* the loop of lines 151-172 from column j on
RECURSIVE LuColumns(_, _, _, _, _)
LuColumns(M, L, U, j, n) ==
  IF j > n THEN Return([L |-> L, U |-> U])
  ELSE LET U2 == LuUpper(M, L, U, j, 1)
           lo == LuLower(M, L, U2, j, j + 1, n)
       IN  IF lo.status = "throw" THEN lo
           ELSE LuColumns(M, lo.value, U2, j + 1, n)

\* the pivot of the last column is tested too, after the loop
luDecomposition_LastPivotTested(M) ==
  LET n      == Len(M)
      result == LuColumns(M, identityMatrix(n), [i \in 1..n |-> ZeroArray(n)], 1, n)
  IN  IF result.status = "return" /\ n >= 1 /\ BelowTolerance(result.value.U[n][n])
      THEN Throw("Zero pivot encountered")
      ELSE result

luDecomposition(M) ==
  LET n == Len(M)
  IN  LuColumns(M, identityMatrix(n), [i \in 1..n |-> ZeroArray(n)], 1, n)

\* lines 227-232: rows below col minus factor times the pivot row, columns col..n
ForwardEliminate(augmented, col, n) ==
  [row \in 1..n |->
     IF row > col
     THEN LET factor == Div(augmented[row][col], augmented[col][col])
          IN  [j \in 1..(n + 1) |->
                 IF j >= col
                 THEN Sub(augmented[row][j], Mul(factor, augmented[col][j]))
                 ELSE augmented[row][j]]
     ELSE augmented[row]]

\* the loop of lines 210-233 from column col on
RECURSIVE ForwardElimination(_, _, _)
ForwardElimination(augmented, col, n) ==
  IF col > n THEN Return(augmented)
  ELSE LET maxRow  == FindPivot(augmented, col, col + 1, col, n)
           swapped == SwapRows(augmented, col, maxRow)
       IN  IF BelowTolerance(swapped[col][col])
           THEN Throw("System has no unique solution")
           ELSE ForwardElimination(ForwardEliminate(swapped, col, n), col + 1, n)

\* the products are added instead of subtracted
RECURSIVE BackRow_Adds(_, _, _, _, _, _)
BackRow_Adds(augmented, sol, i, j, n, acc) ==
  IF j > n THEN acc
  ELSE BackRow_Adds(augmented, sol, i, j + 1, n, Add(acc, Mul(augmented[i][j], sol[j])))

\* x[i] minus augmented[i][j] * x[j] for j = j..n, left to right
RECURSIVE BackRow(_, _, _, _, _, _)
BackRow(augmented, sol, i, j, n, acc) ==
  IF j > n THEN acc
  ELSE BackRow(augmented, sol, i, j + 1, n, Sub(acc, Mul(augmented[i][j], sol[j])))

\* the loop of lines 237-243 from row i down to the first
RECURSIVE BackSubstitution(_, _, _, _)
BackSubstitution(augmented, sol, i, n) ==
  IF i < 1 THEN sol
  ELSE BackSubstitution(augmented,
         [sol EXCEPT ![i] = Div(BackRow(augmented, sol, i, i + 1, n, augmented[i][n + 1]),
                                augmented[i][i])],
         i - 1, n)

linearEquationSolver(M, rhs) ==
  LET n         == Len(M)
      augmented == [i \in 1..n |-> Append(M[i], rhs[i])]
      reduced   == ForwardElimination(augmented, 1, n)
  IN  IF reduced.status = "throw" THEN reduced
      ELSE Return(BackSubstitution(reduced.value, ZeroArray(n), n, n))

\* lines 267-274: A[0].length of line 269 throws a TypeError when A is empty,
\* and so does B[i][j] when B has no row i under a row of A that has entries;
\* val + B[i][j] is NaN where the row i of B has no entry j.  The rows and
\* entries of B beyond those of A are not read.
matrixAdd(M, N) ==
  IF Len(M) = 0 THEN Throw("TypeError")
  ELSE IF \E i \in 1..Len(M) : Len(M[i]) > 0 /\ i > Len(N) THEN Throw("TypeError")
  ELSE Return([i \in 1..Len(M) |-> [j \in 1..Len(M[i]) |->
                 IF j > Len(N[i]) THEN NaN ELSE Add(M[i][j], N[i][j])]])

\* the non-negative integer whose square is k
IntegerRoot(k) == CHOOSE r \in 0..k : r * r = k

\* Math.sqrt, for the numbers that are squares of a number
Sqrt(q) ==
  IF IsNaN(q) \/ q = NegInf \/ Sign(q) < 0 THEN NaN
  ELSE IF q = PosInf THEN PosInf
  ELSE Norm(IntegerRoot(q[1]), IntegerRoot(q[2]), q[3] \div 2)

\* lines 293-295
vectorMagnitude(v) ==
  Sqrt(SumFrom([i \in 1..Len(v) |-> Mul(v[i], v[i])], 1, Len(v), Zero))

\* every entry divided by the magnitude, zero or not
vectorNormalize_NoZeroTest(v) ==
  LET mag == vectorMagnitude(v)
  IN  [i \in 1..Len(v) |-> Div(v[i], mag)]

\* lines 302-308
vectorNormalize(v) ==
  LET mag == vectorMagnitude(v)
  IN  IF mag = Zero THEN [i \in 1..Len(v) |-> Zero]
      ELSE [i \in 1..Len(v) |-> Div(v[i], mag)]

----------------------------------------------------------------------------
(* src/src/matrix/signalProcessing.js                                      *)
(*                                                                         *)
(* The numbers of the Fourier transform are pairs <<p, q>> of numbers      *)
(* standing for p + q * sqrt(2)/2, which holds the sines and cosines of    *)
(* all multiples of an eighth of a turn exactly.                           *)

Half == <<1, 2, 0>>

SZero == <<Zero, Zero>>

SOne == <<One, Zero>>

\* sqrt(2)/2
SRoot == <<Zero, One>>

SInt(k) == <<FromInt(k), Zero>>

SNeg(u) == <<Neg(u[1]), Neg(u[2])>>

SAdd(u, v) == <<Add(u[1], v[1]), Add(u[2], v[2])>>

SSub(u, v) == <<Sub(u[1], v[1]), Sub(u[2], v[2])>>

SMul(u, v) ==
  <<Add(Mul(u[1], v[1]), Mul(Half, Mul(u[2], v[2]))),
    Add(Mul(u[1], v[2]), Mul(u[2], v[1]))>>

\* Math.cos(-2 * Math.PI * k / n), for angles that are multiples of an
\* eighth of a turn
TwiddleCos(k, n) ==
  CASE (8 * k) % n = 0 /\ ((8 * k) \div n) % 8 = 0 -> SOne
    [] (8 * k) % n = 0 /\ ((8 * k) \div n) % 8 \in {1, 7} -> SRoot
    [] (8 * k) % n = 0 /\ ((8 * k) \div n) % 8 \in {2, 6} -> SZero
    [] (8 * k) % n = 0 /\ ((8 * k) \div n) % 8 \in {3, 5} -> SNeg(SRoot)
    [] (8 * k) % n = 0 /\ ((8 * k) \div n) % 8 = 4 -> SNeg(SOne)

\* the sine taken of the angle with the opposite sign
TwiddleSin_Positive(k, n) ==
  CASE (8 * k) % n = 0 /\ ((8 * k) \div n) % 8 \in {0, 4} -> SZero
    [] (8 * k) % n = 0 /\ ((8 * k) \div n) % 8 \in {1, 3} -> SRoot
    [] (8 * k) % n = 0 /\ ((8 * k) \div n) % 8 = 2 -> SOne
    [] (8 * k) % n = 0 /\ ((8 * k) \div n) % 8 \in {5, 7} -> SNeg(SRoot)
    [] (8 * k) % n = 0 /\ ((8 * k) \div n) % 8 = 6 -> SNeg(SOne)

\* Math.sin(-2 * Math.PI * k / n), for angles that are multiples of an
\* eighth of a turn
TwiddleSin(k, n) ==
  CASE (8 * k) % n = 0 /\ ((8 * k) \div n) % 8 \in {0, 4} -> SZero
    [] (8 * k) % n = 0 /\ ((8 * k) \div n) % 8 \in {1, 3} -> SNeg(SRoot)
    [] (8 * k) % n = 0 /\ ((8 * k) \div n) % 8 = 2 -> SNeg(SOne)
    [] (8 * k) % n = 0 /\ ((8 * k) \div n) % 8 \in {5, 7} -> SRoot
    [] (8 * k) % n = 0 /\ ((8 * k) \div n) % 8 = 6 -> SOne

\* lines 48-56: the samples at the even source indices 0, 2, ...
EvenSamples(s) == [i \in 1..((Len(s) + 1) \div 2) |-> s[2 * i - 1]]

\* lines 48-56: the samples at the odd source indices 1, 3, ...
OddSamples(s) == [i \in 1..(Len(s) \div 2) |-> s[2 * i]]

\* the real part of the first half taken as the product of the even half
\* and the twiddled odd half
Combine_Product(fftEven, fftOdd, n) ==
  LET h == n \div 2
      tReal(k) == SSub(SMul(TwiddleCos(k, n), fftOdd.real[k + 1]),
                       SMul(TwiddleSin(k, n), fftOdd.imag[k + 1]))
      tImag(k) == SAdd(SMul(TwiddleCos(k, n), fftOdd.imag[k + 1]),
                       SMul(TwiddleSin(k, n), fftOdd.real[k + 1]))
  IN  [real |-> [i \in 1..n |->
                   IF i <= h THEN SMul(fftEven.real[i], tReal(i - 1))
                   ELSE SSub(fftEven.real[i - h], tReal(i - h - 1))],
       imag |-> [i \in 1..n |->
                   IF i <= h THEN SAdd(fftEven.imag[i], tImag(i - 1))
                   ELSE SSub(fftEven.imag[i - h], tImag(i - h - 1))]]

\* lines 63-82: the two half transforms combined with the twiddle factors
Combine(fftEven, fftOdd, n) ==
  LET h == n \div 2
      tReal(k) == SSub(SMul(TwiddleCos(k, n), fftOdd.real[k + 1]),
                       SMul(TwiddleSin(k, n), fftOdd.imag[k + 1]))
      tImag(k) == SAdd(SMul(TwiddleCos(k, n), fftOdd.imag[k + 1]),
                       SMul(TwiddleSin(k, n), fftOdd.real[k + 1]))
  IN  [real |-> [i \in 1..n |->
                   IF i <= h THEN SAdd(fftEven.real[i], tReal(i - 1))
                   ELSE SSub(fftEven.real[i - h], tReal(i - h - 1))],
       imag |-> [i \in 1..n |->
                   IF i <= h THEN SAdd(fftEven.imag[i], tImag(i - 1))
                   ELSE SSub(fftEven.imag[i - h], tImag(i - h - 1))]]

\* fft of the empty array passes both length tests and calls itself on the
\* empty even half (line 59) without end: the call stack overflows
RECURSIVE fft(_)
fft(s) ==
  LET n == Len(s)
  IN  IF n = 1 THEN Return([real |-> <<s[1]>>, imag |-> <<SZero>>])
      ELSE IF n % 2 # 0 THEN Throw("Input length must be a power of 2")
      ELSE IF n = 0 THEN Throw("RangeError: Maximum call stack size exceeded")
      ELSE LET fftEven == fft(EvenSamples(s))
           IN  IF fftEven.status = "throw" THEN fftEven
               ELSE LET fftOdd == fft(OddSamples(s))
                    IN  IF fftOdd.status = "throw" THEN fftOdd
                        ELSE Return(Combine(fftEven.value, fftOdd.value, n))

\* line 100: v / n on a sample
SOver(a, n) == <<Div(a[1], FromInt(n)), Div(a[2], FromInt(n))>>

\* the forward transform taken of the imaginary part
ifft_OfImag(X) ==
  LET n == Len(X.real)
      result == fft(X.imag)
  IN  IF result.status = "throw" THEN result
      ELSE Return([i \in DOMAIN result.value.real |-> SOver(result.value.real[i], n)])

\* lines 90-101: the negated imaginary part of line 94 is not used; an error
\* of fft leaves ifft
ifft(X) ==
  LET n == Len(X.real)
      result == fft(X.real)
  IN  IF result.status = "throw" THEN result
      ELSE Return([i \in DOMAIN result.value.real |-> SOver(result.value.real[i], n)])

\* lines 21-24: one pass of the inner loop on result[i], held in acc
ConvolveTerm(signal, kernel, i, j, acc) ==
  LET signalIdx == i - j
  IN  IF signalIdx >= 0 /\ signalIdx < Len(signal)
      THEN Add(acc, Mul(signal[signalIdx + 1], kernel[j + 1]))
      ELSE acc

\* lines 20-25: the inner loop from j on
RECURSIVE ConvolveAt(_, _, _, _, _)
ConvolveAt(signal, kernel, i, j, acc) ==
  IF j >= Len(kernel) THEN acc
  ELSE ConvolveAt(signal, kernel, i, j + 1, ConvolveTerm(signal, kernel, i, j, acc))

\* lines 12-29; new Array(outputLen) of line 17 throws a RangeError for the
\* length -1 of two empty arguments
convolution1d(signal, kernel) ==
  LET outputLen == Len(signal) + Len(kernel) - 1
  IN  IF outputLen < 0 THEN Throw("RangeError: Invalid array length")
      ELSE Return([i \in 1..outputLen |-> ConvolveAt(signal, kernel, i - 1, 0, Zero)])

RECURSIVE Power(_, _)
Power(q, k) == IF k = 0 THEN One ELSE Mul(q, Power(q, k - 1))

\* line 119: Math.exp(-(x*x + y*y) / (2 * sigma * sigma)) with d2 = x*x + y*y.
\* The argument sigma is held as the number q = Math.exp(-1 / (2 sigma^2)):
\* 0 for sigma = 0, NaN for sigma = NaN, 1 for an infinite sigma and 0 < q < 1
\* otherwise.  For d2 > 0 the value is q^d2; for d2 = 0 it is exp(-0) = 1
\* unless sigma is 0 or NaN, where -0 / 0 and -0 / NaN are NaN.
GaussValue(sigma, d2) ==
  IF d2 = 0 THEN (IF sigma = Zero \/ IsNaN(sigma) THEN NaN ELSE One)
  ELSE Power(sigma, d2)

\* lines 114-122: the kernel before it is normalised
GaussValues(size, sigma) ==
  LET center == size \div 2
  IN  [i \in 1..size |-> [j \in 1..size |->
         GaussValue(sigma, (i - 1 - center) * (i - 1 - center)
                             + (j - 1 - center) * (j - 1 - center))]]

\* lines 112-122: sum, accumulated row by row
RECURSIVE GaussSum(_, _, _)
GaussSum(kernel, i, acc) ==
  IF i > Len(kernel) THEN acc
  ELSE GaussSum(kernel, i + 1, SumFrom(kernel[i], 1, Len(kernel[i]), acc))

\* the kernel left as it is before line 125
Normalised_Not(kernel, sum) == kernel

\* lines 125-129
Normalised(kernel, sum) ==
  [i \in DOMAIN kernel |-> [j \in DOMAIN kernel[i] |-> Div(kernel[i][j], sum)]]

\* lines 109-132, for an integer size >= 0
createGaussianKernel(size, sigma) ==
  LET kernel == GaussValues(size, sigma)
  IN  Normalised(kernel, GaussSum(kernel, 1, Zero))

\* the kernel applied mirrored: the source pixel at i - ki + pad, j - kj + pad
Convolve2dTerm_Mirrored(image, kernel, i, j, ki, kj, acc) ==
  LET pad == Len(kernel) \div 2
      ii == i - ki + pad
      jj == j - kj + pad
  IN  IF ii >= 0 /\ ii < Len(image) /\ jj >= 0 /\ jj < Len(image[1])
      THEN Add(acc, Mul(image[ii + 1][jj + 1], kernel[ki + 1][kj + 1]))
      ELSE acc

\* lines 155-161: one pass of the innermost loop on sum, held in acc
Convolve2dTerm(image, kernel, i, j, ki, kj, acc) ==
  LET pad == Len(kernel) \div 2
      ii == i + ki - pad
      jj == j + kj - pad
  IN  IF ii >= 0 /\ ii < Len(image) /\ jj >= 0 /\ jj < Len(image[1])
      THEN Add(acc, Mul(image[ii + 1][jj + 1], kernel[ki + 1][kj + 1]))
      ELSE acc

\* lines 153-162: the loops over ki and kj from pass t = ki * kernelSize + kj on
RECURSIVE Convolve2dAt(_, _, _, _, _, _)
Convolve2dAt(image, kernel, i, j, t, acc) ==
  LET kernelSize == Len(kernel)
  IN  IF t >= kernelSize * kernelSize THEN acc
      ELSE Convolve2dAt(image, kernel, i, j, t + 1,
             Convolve2dTerm(image, kernel, i, j, t \div kernelSize, t % kernelSize, acc))

\* lines 140-168; image[0].length of line 142 throws a TypeError for an image
\* without rows
convolution2d(image, kernel) ==
  IF Len(image) = 0 THEN Throw("TypeError")
  ELSE Return([i \in 1..Len(image) |-> [j \in 1..Len(image[1]) |->
                 Convolve2dAt(image, kernel, i - 1, j - 1, 0, Zero)]])

\* lines 177-180
gaussianBlur(image, kernelSize, sigma) ==
  convolution2d(image, createGaussianKernel(kernelSize, sigma))

\* p >= q  (false when either is NaN)
Ge(p, q) == ~ IsNaN(p) /\ ~ IsNaN(q) /\ ~ Lt(p, q)

\* the fraction cut off towards minus infinity
JsRound_Floor(q) ==
  IF ~ IsFinite(q) THEN q ELSE FromInt(q[1] \div q[2])

\* Math.round of a number of scale 1: the nearest integer, the upper one of
\* two; NaN and the infinities are kept
JsRound(q) ==
  IF ~ IsFinite(q) THEN q ELSE FromInt((2 * q[1] + q[2]) \div (2 * q[2]))

\* lines 204-209: the source coordinates of the pixel (px, py).  The argument
\* angleDegrees is held as the pair of Math.cos(angleRad) and
\* Math.sin(angleRad).
SourceX(image, angle, px, py) ==
  LET centerX == Div(FromInt(Len(image[1])), FromInt(2))
      centerY == Div(FromInt(Len(image)), FromInt(2))
      dx == Sub(FromInt(px), centerX)
      dy == Sub(FromInt(py), centerY)
  IN  Add(Add(Mul(angle.cos, dx), Mul(angle.sin, dy)), centerX)

SourceY(image, angle, px, py) ==
  LET centerX == Div(FromInt(Len(image[1])), FromInt(2))
      centerY == Div(FromInt(Len(image)), FromInt(2))
      dx == Sub(FromInt(px), centerX)
      dy == Sub(FromInt(py), centerY)
  IN  Add(Add(Mul(Neg(angle.sin), dx), Mul(angle.cos, dy)), centerY)

\* lines 211-216: the pixel (px, py) of the result, 0 where line 201 left it
RotatedPixel(image, angle, px, py) ==
  LET srcXi == JsRound(SourceX(image, angle, px, py))
      srcYi == JsRound(SourceY(image, angle, px, py))
  IN  IF /\ Ge(srcXi, Zero) /\ Lt(srcXi, FromInt(Len(image[1])))
         /\ Ge(srcYi, Zero) /\ Lt(srcYi, FromInt(Len(image)))
      THEN image[srcYi[1] + 1][srcXi[1] + 1]
      ELSE Zero

\* lines 188-221; image[0].length of line 190 throws a TypeError for an image
\* without rows
imageRotation(image, angle) ==
  IF Len(image) = 0 THEN Throw("TypeError")
  ELSE Return([py \in 1..Len(image) |-> [px \in 1..Len(image[1]) |->
                 RotatedPixel(image, angle, px - 1, py - 1)]])

\* the highest of the 256 grey levels
MaxLevel == 255

\* lines 237 and 269: Math.min(255, Math.max(0, Math.round(pixel))) as an
\* integer, for a finite pixel of scale 1
Level(pixel) ==
  LET rounded == JsRound(pixel)[1]
  IN  IF rounded < 0 THEN 0 ELSE IF rounded > MaxLevel THEN MaxLevel ELSE rounded

\* lines 237-238 for every pixel: the grey levels of the image, row by row
RECURSIVE Levels(_, _, _)
Levels(image, t, acc) ==
  LET cols == Len(image[1])
  IN  IF t >= Len(image) * cols THEN acc
      ELSE Levels(image, t + 1,
                  Append(acc, Level(image[(t \div cols) + 1][(t % cols) + 1])))

\* lines 234-247: cdf[i], the running sum histogram[0] + ... + histogram[i]
\* of the numbers of pixels of each grey level, which is the number of pixels
\* of the grey levels up to i
Cdf(levels, i) == Cardinality({p \in DOMAIN levels : levels[p] <= i})

\* cdfMin left at the 0 of line 250
CdfMin_Zero(levels) == 0

\* lines 250-256: the first cdf[i] greater than 0, and 0 without one
CdfMin(levels) ==
  IF \E i \in 0..MaxLevel : Cdf(levels, i) > 0
  THEN Cdf(levels, CHOOSE i \in 0..MaxLevel :
                      /\ Cdf(levels, i) > 0
                      /\ \A k \in 0..(i - 1) : Cdf(levels, k) <= 0)
  ELSE 0

\* line 261: lookup[i]
Lookup(levels, i) ==
  JsRound(Div(FromInt((Cdf(levels, i) - CdfMin(levels)) * MaxLevel),
              FromInt(Len(levels) - CdfMin(levels))))

\* lines 228-274; image[0].length of line 230 throws a TypeError for an image
\* without rows; totalPixels is the number of grey levels taken
histogramEqualization(image) ==
  IF Len(image) = 0 THEN Throw("TypeError")
  ELSE LET levels == Levels(image, 0, <<>>)
       IN  Return([i \in 1..Len(image) |-> [j \in 1..Len(image[1]) |->
                     Lookup(levels, levels[Len(image[1]) * (i - 1) + j])]])

\* the window taken as incomplete one entry longer
IncompleteWindow_Late(i, window) == i < window

\* line 286
IncompleteWindow(i, window) == i < window - 1

\* lines 289-292: the inner loop from j on, sum held in acc
RECURSIVE WindowSum(_, _, _, _, _)
WindowSum(series, window, i, j, acc) ==
  IF j >= window THEN acc
  ELSE WindowSum(series, window, i, j + 1, Add(acc, series[i - j + 1]))

\* lines 282-298, for an integer window >= 1
rollingMean(series, window) ==
  [k \in 1..Len(series) |->
     IF IncompleteWindow(k - 1, window) THEN NaN
     ELSE Div(WindowSum(series, window, k - 1, 0, Zero), FromInt(window))]

\* lines 182-195: matrix[0].length of line 184 throws a TypeError when the
\* matrix is empty
matrixTranspose(matrix) ==
  IF Len(matrix) = 0 THEN Throw("TypeError")
  ELSE LET rows == Len(matrix)
           cols == Len(matrix[1])
       IN  Return([j \in 1..cols |-> [i \in 1..rows |-> matrix[i][j]]])

----------------------------------------------------------------------------
(* The arrays of a call as objects.  A heap is the sequence of the arrays   *)
(* that exist, an array is named by its position in the heap, and an array  *)
(* of arrays holds the positions of its rows.  The functions below are the  *)
(* functions above with every allocation and every assignment to an array   *)
(* element carried out on the heap.                                         *)

\* the matrix argument, the vector argument and the rows of the matrix
MatrixObject == 1

VectorObject == 2

CallHeap(matrix, rhs) ==
  <<[i \in 1..Len(matrix) |-> i + 2], rhs>> \o matrix

\* the rows an array of arrays holds
Contents(heap, ref) == [i \in 1..Len(heap[ref]) |-> heap[heap[ref][i]]]

\* new rows and a new array holding them
AllocateMatrix(heap, rows) ==
  [heap   |-> (heap \o rows) \o <<[i \in 1..Len(rows) |-> Len(heap) + i]>>,
   result |-> Len(heap) + Len(rows) + 1]

\* assignments to the elements of the rows the array ref holds
StoreRows(heap, ref, rows) ==
  [r \in 1..Len(heap) |->
     IF \E i \in 1..Len(heap[ref]) : heap[ref][i] = r
     THEN rows[CHOOSE i \in 1..Len(heap[ref]) : heap[ref][i] = r]
     ELSE heap[r]]

\* the identity row is pushed onto each row of the matrix, and the matrix
\* itself is worked on
Augment_InPlace(heap, matrix, n) ==
  [heap   |-> StoreRows(heap, matrix,
                [i \in 1..n |->
                   heap[heap[matrix][i]] \o [j \in 1..n |-> IF j = i THEN One ELSE Zero]]),
   result |-> matrix]

\* lines 59-63: matrix.map gives a new array of the new rows
\* [...row, ...identityRow]
Augment(heap, matrix, n) ==
  AllocateMatrix(heap,
    [i \in 1..n |->
       heap[heap[matrix][i]] \o [j \in 1..n |-> IF j = i THEN One ELSE Zero]])

\* the loop of lines 66-98 from column col on: the swap of line 76 assigns
\* to two elements of augmented, lines 84-87 and 90-97 to elements of its rows
RECURSIVE GaussJordanOnHeap(_, _, _, _)
GaussJordanOnHeap(heap, augmented, col, n) ==
  IF col > n THEN [status |-> "return", heap |-> heap]
  ELSE LET maxRow  == FindPivot(Contents(heap, augmented), col, col + 1, col, n)
           swapped == [heap EXCEPT ![augmented] = SwapRows(heap[augmented], col, maxRow)]
           rows    == Contents(swapped, augmented)
       IN  IF BelowTolerance(rows[col][col])
           THEN [status |-> "throw", heap |-> swapped]
           ELSE GaussJordanOnHeap(
                  StoreRows(swapped, augmented,
                            EliminateColumn(ScalePivotRow(rows, col, n), col, n)),
                  augmented, col + 1, n)

\* lines 55-102; line 101 returns new rows, row.slice(n)
matrixInverseOnHeap(heap, matrix) ==
  LET n         == Len(heap[matrix])
      augmented == Augment(heap, matrix, n)
      reduced   == GaussJordanOnHeap(augmented.heap, augmented.result, 1, n)
      rows      == Contents(reduced.heap, augmented.result)
  IN  IF reduced.status = "throw"
      THEN [ret |-> Throw("Matrix is singular and cannot be inverted"),
            heap |-> reduced.heap]
      ELSE LET result == AllocateMatrix(reduced.heap,
                           [i \in 1..n |-> SubSeq(rows[i], n + 1, 2 * n)])
           IN  [ret |-> Return(Contents(result.heap, result.result)),
                heap |-> result.heap]

\* the loop of lines 210-233 from column col on: the swap of line 219 assigns
\* to two elements of augmented, lines 227-232 to elements of its rows
RECURSIVE ForwardEliminationOnHeap(_, _, _, _)
ForwardEliminationOnHeap(heap, augmented, col, n) ==
  IF col > n THEN [status |-> "return", heap |-> heap]
  ELSE LET maxRow  == FindPivot(Contents(heap, augmented), col, col + 1, col, n)
           swapped == [heap EXCEPT ![augmented] = SwapRows(heap[augmented], col, maxRow)]
           rows    == Contents(swapped, augmented)
       IN  IF BelowTolerance(rows[col][col])
           THEN [status |-> "throw", heap |-> swapped]
           ELSE ForwardEliminationOnHeap(
                  StoreRows(swapped, augmented, ForwardEliminate(rows, col, n)),
                  augmented, col + 1, n)

\* lines 203-246; line 207 makes a new array of the new rows [...row, b[i]],
\* line 236 the new array x that lines 238-242 assign to
linearEquationSolverOnHeap(heap, M, rhs) ==
  LET n         == Len(heap[M])
      augmented == AllocateMatrix(heap,
                     [i \in 1..n |-> Append(heap[heap[M][i]], heap[rhs][i])])
      reduced   == ForwardEliminationOnHeap(augmented.heap, augmented.result, 1, n)
      rows      == Contents(reduced.heap, augmented.result)
  IN  IF reduced.status = "throw"
      THEN [ret |-> Throw("System has no unique solution"), heap |-> reduced.heap]
      ELSE LET sol == BackSubstitution(rows, ZeroArray(n), n, n)
           IN  [ret |-> Return(sol), heap |-> Append(reduced.heap, sol)]

\* lines 140-175: L and U are new arrays of new rows (lines 144-145), and
\* every assignment is to an element of a row of L or of U
luDecompositionOnHeap(heap, M) ==
  LET result == luDecomposition(Contents(heap, M))
  IN  IF result.status = "throw" THEN [ret |-> result, heap |-> heap]
      ELSE [ret  |-> result,
            heap |-> AllocateMatrix(AllocateMatrix(heap, result.value.L).heap,
                                    result.value.U).heap]

\* lines 182-195: result is a new array of new rows (line 186), and line 190
\* assigns to the elements of its rows
matrixTransposeOnHeap(heap, matrix) ==
  LET result == matrixTranspose(Contents(heap, matrix))
  IN  IF result.status = "throw" THEN [ret |-> result, heap |-> heap]
      ELSE [ret |-> result, heap |-> AllocateMatrix(heap, result.value).heap]

\* the loop of lines 66-98 from column col up to the moment it reaches the
\* pivot search of column upto
RECURSIVE GaussJordanUpTo(_, _, _, _)
GaussJordanUpTo(augmented, col, upto, n) ==
  IF col = upto THEN Return(augmented)
  ELSE LET maxRow  == FindPivot(augmented, col, col + 1, col, n)
           swapped == SwapRows(augmented, col, maxRow)
       IN  IF BelowTolerance(swapped[col][col])
           THEN Throw("Matrix is singular and cannot be inverted")
           ELSE GaussJordanUpTo(EliminateColumn(ScalePivotRow(swapped, col, n), col, n),
                                col + 1, upto, n)

\* the loop of lines 210-233 from column col up to the moment it reaches the
\* pivot search of column upto
RECURSIVE ForwardEliminationUpTo(_, _, _, _)
ForwardEliminationUpTo(augmented, col, upto, n) ==
  IF col = upto THEN Return(augmented)
  ELSE LET maxRow  == FindPivot(augmented, col, col + 1, col, n)
           swapped == SwapRows(augmented, col, maxRow)
       IN  IF BelowTolerance(swapped[col][col])
           THEN Throw("System has no unique solution")
           ELSE ForwardEliminationUpTo(ForwardEliminate(swapped, col, n),
                                       col + 1, upto, n)

\* the working matrix of matrixInverse(matrix) when column col is reached
InverseWorking(matrix, col) ==
  LET n == Len(matrix)
  IN  GaussJordanUpTo([i \in 1..n |->
                         matrix[i] \o [j \in 1..n |-> IF j = i THEN One ELSE Zero]],
                      1, col, n)

\* the working matrix of linearEquationSolver(M, rhs) when column col is reached
SolverWorking(M, rhs, col) ==
  LET n == Len(M)
  IN  ForwardEliminationUpTo([i \in 1..n |-> Append(M[i], rhs[i])], 1, col, n)

----------------------------------------------------------------------------
(* The numbers as IEEE 754 doubles.  A JavaScript number is a binary64     *)
(* value: (-1)^s * M * 2^exp with 2^52 <= M < 2^53, or zero, and every     *)
(* +, -, * and / is rounded to the nearest such value, ties to the even M. *)
(* The integers involved exceed 32 bits, so M and the intermediate results *)
(* are sequences of limbs, least significant first.  The exponent is not   *)
(* bounded: the values of the bounded inputs stay far from overflow and    *)
(* from the subnormal numbers, and no division is by zero.                 *)

LimbBits == 14
Base == 2^LimbBits
MantissaBits == 53

Limb(X, i) == IF i >= 1 /\ i <= Len(X) THEN X[i] ELSE 0

\* the sequence with every element computed
Values(array) == array \o <<>>

\* the limbs of the number whose limbs before carrying are limbs
RECURSIVE Carry(_, _, _)
Carry(limbs, c, out) ==
  IF Len(out) >= Len(limbs)
  THEN IF c = 0 THEN out ELSE Carry(limbs, c \div Base, Append(out, c % Base))
  ELSE LET t == limbs[Len(out) + 1] + c
       IN  Carry(limbs, t \div Base, Append(out, t % Base))

LongerLen(X, Y) == IF Len(X) >= Len(Y) THEN Len(X) ELSE Len(Y)

BigAdd(X, Y) == Carry([i \in 1..LongerLen(X, Y) |-> Limb(X, i) + Limb(Y, i)], 0, <<>>)

\* X - Y for X >= Y
BigSub(X, Y) == Carry([i \in 1..LongerLen(X, Y) |-> Limb(X, i) - Limb(Y, i)], 0, <<>>)

RECURSIVE LimbProducts(_, _, _, _)
LimbProducts(X, Y, k, i) ==
  IF i > Len(X) THEN 0
  ELSE X[i] * Limb(Y, k + 1 - i) + LimbProducts(X, Y, k, i + 1)

\* X * Y for X of at most four limbs
BigMul(X, Y) ==
  Carry([k \in 1..(Len(X) + Len(Y) - 1) |-> LimbProducts(X, Y, k, 1)], 0, <<>>)

BigLess(X, Y) ==
  \E i \in 1..LongerLen(X, Y) :
     /\ Limb(X, i) < Limb(Y, i)
     /\ \A j \in (i + 1)..LongerLen(X, Y) : Limb(X, j) = Limb(Y, j)

BigIsZero(X) == \A i \in 1..Len(X) : X[i] = 0

\* the number of binary digits of X
BitLength(X) ==
  IF BigIsZero(X) THEN 0
  ELSE LET top == CHOOSE i \in 1..Len(X) : X[i] # 0 /\ \A j \in (i + 1)..Len(X) : X[j] = 0
       IN  LimbBits * (top - 1)
             + (CHOOSE k \in 1..LimbBits : 2^(k - 1) <= X[top] /\ X[top] < 2^k)

\* X * 2^k
ShiftLeft(X, k) ==
  [i \in 1..(k \div LimbBits) |-> 0]
    \o Carry([i \in 1..Len(X) |-> X[i] * 2^(k % LimbBits)], 0, <<>>)

\* X divided by 2^k, rounded down
ShiftRight(X, k) ==
  LET q == k \div LimbBits
      r == k % LimbBits
  IN  Values([i \in 1..(Len(X) - q) |->
         (X[i + q] \div 2^r) + (Limb(X, i + q + 1) % 2^r) * 2^(LimbBits - r)])

\* the lowest k binary digits of X are zero
LowBitsZero(X, k) ==
  /\ \A i \in 1..(k \div LimbBits) : Limb(X, i) = 0
  /\ Limb(X, (k \div LimbBits) + 1) % 2^(k % LimbBits) = 0

Mantissa(X) == <<Limb(X, 1), Limb(X, 2), Limb(X, 3), Limb(X, 4)>>

DZero == [sign |-> 1, man |-> <<0, 0, 0, 0>>, exp |-> 0]

DIsZero(d) == d.man = <<0, 0, 0, 0>>

\* the double nearest to sign * X * 2^e, ties to the even mantissa; sticky
\* says that the exact value lies above X * 2^e by less than 2^e
Pack(sign, X, e, sticky) ==
  LET len == BitLength(X)
  IN  IF len = 0 THEN DZero
      ELSE IF len <= MantissaBits
      THEN [sign |-> sign, man |-> Mantissa(ShiftLeft(X, MantissaBits - len)),
            exp |-> e - (MantissaBits - len)]
      ELSE LET k       == len - MantissaBits
               kept    == ShiftRight(X, k)
               half    == Limb(ShiftRight(X, k - 1), 1) % 2 = 1
               more    == sticky \/ ~ LowBitsZero(X, k - 1)
               rounded == IF half /\ (more \/ kept[1] % 2 = 1)
                          THEN BigAdd(kept, <<1>>) ELSE kept
           IN  IF BitLength(rounded) > MantissaBits
               THEN [sign |-> sign, man |-> Mantissa(ShiftRight(rounded, 1)),
                     exp |-> e + k + 1]
               ELSE [sign |-> sign, man |-> Mantissa(rounded), exp |-> e + k]

\* the double of an integer of magnitude below 2^31
DFromInt(k) ==
  LET m == IF k < 0 THEN -k ELSE k
  IN  Pack(IF k < 0 THEN -1 ELSE 1,
           <<m % Base, (m \div Base) % Base, m \div (Base * Base)>>, 0, FALSE)

DNeg(d) == IF DIsZero(d) THEN d ELSE [d EXCEPT !.sign = -d.sign]

\* Math.abs(d) < Math.abs(e)
DAbsLess(d, e) ==
  IF DIsZero(e) THEN FALSE
  ELSE IF DIsZero(d) THEN TRUE
  ELSE IF d.exp # e.exp THEN d.exp < e.exp
  ELSE BigLess(d.man, e.man)

DMul(d, e) ==
  IF DIsZero(d) \/ DIsZero(e) THEN DZero
  ELSE Pack(d.sign * e.sign, BigMul(d.man, e.man), d.exp + e.exp, FALSE)

\* the quotient Q and the remainder R of N by D, one limb of the quotient
\* at a time from the most significant limb of N; D has four limbs, the
\* highest of them at least Base / 8
RECURSIVE LongDivide(_, _, _, _)
LongDivide(N, D, R, Q) ==
  IF Len(Q) = Len(N) THEN [q |-> Q, r |-> R]
  ELSE LET R1  == <<N[Len(N) - Len(Q)]>> \o R
           est == (R1[5] * Base + R1[4]) \div D[4]
           top == IF est >= Base THEN Base - 1 ELSE est
           q   == CHOOSE c \in {top - 2, top - 1, top} :
                    /\ c >= 0
                    /\ ~ BigLess(R1, BigMul(D, <<c>>))
                    /\ BigLess(R1, BigMul(D, <<c + 1>>))
       IN  LongDivide(N, D, Mantissa(BigSub(R1, BigMul(D, <<q>>))), <<q>> \o Q)

\* d / e for e other than zero
DDiv(d, e) ==
  IF DIsZero(d) THEN DZero
  ELSE LET N == ShiftLeft(d.man, MantissaBits + 6)
           D == Mantissa(ShiftLeft(e.man, 3))
           w == LongDivide(N, D, <<0, 0, 0, 0>>, <<>>)
       IN  Pack(d.sign * e.sign, w.q, d.exp - e.exp - (MantissaBits + 3),
                ~ BigIsZero(w.r))

DAdd(d, e) ==
  IF DIsZero(d) THEN e
  ELSE IF DIsZero(e) THEN d
  ELSE LET hi == IF d.exp >= e.exp THEN d ELSE e
           lo == IF d.exp >= e.exp THEN e ELSE d
           by == hi.exp - lo.exp
       IN  IF by > MantissaBits + 2 THEN hi
           ELSE LET X == ShiftLeft(hi.man, by)
                    Y == lo.man
                IN  IF hi.sign = lo.sign THEN Pack(hi.sign, BigAdd(X, Y), lo.exp, FALSE)
                    ELSE IF BigLess(X, Y) THEN Pack(lo.sign, BigSub(Y, X), lo.exp, FALSE)
                    ELSE Pack(hi.sign, BigSub(X, Y), lo.exp, FALSE)

DSub(d, e) == DAdd(d, DNeg(e))

\* the literal 1e-10: the double nearest to 1 / 10^10
DTol == DDiv(DFromInt(1), DMul(DFromInt(100000), DFromInt(100000)))

----------------------------------------------------------------------------
(* The two eliminations of matrixOperations.js on doubles.                 *)

\* the pivot search of lines 68-73 (and 212-217)
RECURSIVE FindPivotInDoubles(_, _, _, _, _)
FindPivotInDoubles(augmented, col, row, maxRow, n) ==
  IF row > n THEN maxRow
  ELSE FindPivotInDoubles(augmented, col, row + 1,
         IF DAbsLess(augmented[maxRow][col], augmented[row][col])
         THEN row ELSE maxRow, n)

\* the pivot test of lines 79 and 222
BelowToleranceInDoubles(q) == DAbsLess(q, DTol)

\* lines 84-87
ScalePivotRowInDoubles(augmented, col, n) ==
  LET pivot == augmented[col][col]
  IN  [augmented EXCEPT
         ![col] = Values([j \in 1..(2 * n) |-> DDiv(augmented[col][j], pivot)])]

\* lines 90-97
EliminateColumnInDoubles(augmented, col, n) ==
  Values([row \in 1..n |->
     IF row # col
     THEN LET factor == augmented[row][col]
          IN  Values([j \in 1..(2 * n) |->
                 DSub(augmented[row][j], DMul(factor, augmented[col][j]))])
     ELSE augmented[row]])

\* the loop of lines 66-98 from column col on
RECURSIVE GaussJordanInDoubles(_, _, _)
GaussJordanInDoubles(augmented, col, n) ==
  IF col > n THEN Return(augmented)
  ELSE LET maxRow  == FindPivotInDoubles(augmented, col, col + 1, col, n)
           swapped == SwapRows(augmented, col, maxRow)
       IN  IF BelowToleranceInDoubles(swapped[col][col])
           THEN Throw("Matrix is singular and cannot be inverted")
           ELSE GaussJordanInDoubles(
                  EliminateColumnInDoubles(ScalePivotRowInDoubles(swapped, col, n), col, n),
                  col + 1, n)

matrixInverseInDoubles(matrix) ==
  LET n         == Len(matrix)
      augmented == Values([i \in 1..n |->
                      matrix[i] \o [j \in 1..n |-> IF j = i THEN DFromInt(1) ELSE DZero]])
      reduced   == GaussJordanInDoubles(augmented, 1, n)
  IN  IF reduced.status = "throw" THEN reduced
      ELSE Return([i \in 1..n |-> SubSeq(reduced.value[i], n + 1, 2 * n)])

\* lines 227-232
ForwardEliminateInDoubles(augmented, col, n) ==
  Values([row \in 1..n |->
     IF row > col
     THEN LET factor == DDiv(augmented[row][col], augmented[col][col])
          IN  Values([j \in 1..(n + 1) |->
                 IF j >= col
                 THEN DSub(augmented[row][j], DMul(factor, augmented[col][j]))
                 ELSE augmented[row][j]])
     ELSE augmented[row]])

\* the loop of lines 210-233 from column col on
RECURSIVE ForwardEliminationInDoubles(_, _, _)
ForwardEliminationInDoubles(augmented, col, n) ==
  IF col > n THEN Return(augmented)
  ELSE LET maxRow  == FindPivotInDoubles(augmented, col, col + 1, col, n)
           swapped == SwapRows(augmented, col, maxRow)
       IN  IF BelowToleranceInDoubles(swapped[col][col])
           THEN Throw("System has no unique solution")
           ELSE ForwardEliminationInDoubles(ForwardEliminateInDoubles(swapped, col, n),
                                            col + 1, n)

\* x[i] minus augmented[i][j] * x[j] for j = j..n, left to right
RECURSIVE BackRowInDoubles(_, _, _, _, _, _)
BackRowInDoubles(augmented, sol, i, j, n, acc) ==
  IF j > n THEN acc
  ELSE BackRowInDoubles(augmented, sol, i, j + 1, n,
                        DSub(acc, DMul(augmented[i][j], sol[j])))

\* the loop of lines 237-243 from row i down to the first
RECURSIVE BackSubstitutionInDoubles(_, _, _, _)
BackSubstitutionInDoubles(augmented, sol, i, n) ==
  IF i < 1 THEN sol
  ELSE BackSubstitutionInDoubles(augmented,
         [sol EXCEPT ![i] =
            DDiv(BackRowInDoubles(augmented, sol, i, i + 1, n, augmented[i][n + 1]),
                 augmented[i][i])],
         i - 1, n)

linearEquationSolverInDoubles(M, rhs) ==
  LET n         == Len(M)
      augmented == Values([i \in 1..n |-> Append(M[i], rhs[i])])
      reduced   == ForwardEliminationInDoubles(augmented, 1, n)
  IN  IF reduced.status = "throw" THEN reduced
      ELSE Return(BackSubstitutionInDoubles(reduced.value,
                    Values([i \in 1..n |-> DZero]), n, n))

----------------------------------------------------------------------------
(* The calls of the linear-algebra functions on bounded inputs.            *)

\* the factors by which the integer entries of an input matrix are scaled:
\* 1, 5e-11 (half the tolerance) and 2e10
Scales == {One, <<1, 2, 1>>, <<2, 1, -1>>}

SquareMatrices(n, Vals) == [1..n -> [1..n -> Vals]]

Scaled(M, s) == [i \in DOMAIN M |-> [j \in DOMAIN M[i] |-> Mul(FromInt(M[i][j]), s)]]

\* the right-hand sides: k times a unit vector and k times the vector of ones
Vectors(n) ==
  {[i \in 1..n |-> IF i = u THEN FromInt(k) ELSE Zero] : u \in 1..n, k \in 0..MaxRhs}
    \cup {[i \in 1..n |-> FromInt(k)] : k \in 0..MaxRhs}

NoValue == [status |-> "none", value |-> <<>>]

\* matrices of up to two rows, and the three-row matrices of entries 0 and 1,
\* are taken at every scale; the other three-row matrices at scale 1
InitMatrix ==
  /\ pc = "call"
  /\ \/ \E n \in 0..2 : \E M \in SquareMatrices(n, -MaxVal..MaxVal) :
           \E s \in Scales : A = Scaled(M, s)
     \/ \E M \in SquareMatrices(3, 0..1) : \E s \in Scales : A = Scaled(M, s)
     \/ \E M \in SquareMatrices(3, 0..MaxVal3) : A = Scaled(M, One)
  /\ b = <<>>
  /\ x = <<>>
  /\ ret = NoValue

MatrixInverse ==
  /\ pc = "call"
  /\ pc' = "matrixInverse"
  /\ ret' = matrixInverse(A)
  /\ UNCHANGED <<A, b, x>>

MatrixDeterminant ==
  /\ pc = "call"
  /\ pc' = "matrixDeterminant"
  /\ ret' = Return(matrixDeterminant(A))
  /\ UNCHANGED <<A, b, x>>

LuDecomposition ==
  /\ pc = "call"
  /\ pc' = "luDecomposition"
  /\ ret' = luDecomposition(A)
  /\ UNCHANGED <<A, b, x>>

LinearEquationSolver ==
  /\ pc = "call"
  /\ pc' = "linearEquationSolver"
  /\ \E rhs \in Vectors(Len(A)) :
        /\ b' = rhs
        /\ ret' = linearEquationSolver(A, rhs)
  /\ UNCHANGED <<A, x>>

NextMatrix ==
  \/ MatrixInverse
  \/ MatrixDeterminant
  \/ LuDecomposition

\* the functions of one matrix argument
SpecMatrix == InitMatrix /\ [][NextMatrix]_vars

NextSolve ==
  \/ MatrixInverse
  \/ LinearEquationSolver

\* the two Gaussian eliminations
SpecSolve == InitMatrix /\ [][NextSolve]_vars

\* the entries of the two-row matrices taken as doubles: the integers
\* 0..MaxDoubleEntry, and 700000 and 900000, at which neighbouring doubles
\* lie 2^-33 (about 1.16e-10, more than the tolerance) apart
LargeEntries == {700000, 900000}

Doubles(M) == [i \in DOMAIN M |-> [j \in DOMAIN M[i] |-> DFromInt(M[i][j])]]

\* the unit vectors and the vector of ones
DoubleVectors(n) ==
  {[i \in 1..n |-> IF i = u THEN DFromInt(1) ELSE DZero] : u \in 1..n}
    \cup {[i \in 1..n |-> DFromInt(1)]}

InitDoubles ==
  /\ pc = "call"
  /\ \/ \E M \in SquareMatrices(2, 0..MaxDoubleEntry) : A = Doubles(M)
     \/ \E M \in SquareMatrices(2, LargeEntries) : A = Doubles(M)
  /\ b = <<>>
  /\ x = <<>>
  /\ ret = NoValue

MatrixInverseInDoubles ==
  /\ pc = "call"
  /\ pc' = "matrixInverse"
  /\ ret' = matrixInverseInDoubles(A)
  /\ UNCHANGED <<A, b, x>>

LinearEquationSolverInDoubles ==
  /\ pc = "call"
  /\ pc' = "linearEquationSolver"
  /\ \E rhs \in DoubleVectors(Len(A)) :
        /\ b' = rhs
        /\ ret' = linearEquationSolverInDoubles(A, rhs)
  /\ UNCHANGED <<A, x>>

NextDoubles ==
  \/ MatrixInverseInDoubles
  \/ LinearEquationSolverInDoubles

\* the two Gaussian eliminations in double-precision arithmetic
SpecDoubles == InitDoubles /\ [][NextDoubles]_vars

----------------------------------------------------------------------------
(* The calls of the signal-processing functions on bounded inputs.         *)

Samples(v) == [i \in DOMAIN v |-> SInt(v[i])]

InitSignal ==
  /\ pc = "call"
  /\ A = <<>>
  /\ b = <<>>
  /\ \/ \E len \in 0..MaxLen : \E v \in [1..len -> 0..1] : x = Samples(v)
     \/ \E len \in 0..MaxShortLen : \E v \in [1..len -> -MaxSample..MaxSample] :
           x = Samples(v)
  /\ ret = NoValue

Fft ==
  /\ pc = "call"
  /\ pc' = "fft"
  /\ ret' = fft(x)
  /\ UNCHANGED <<A, b, x>>

\* the imaginary parts ifft is called with on the real part re
ImagParts(re) ==
  {[i \in DOMAIN re |-> SInt(k)] : k \in -1..1} \cup {re, <<SOne>>}

\* ifft called on what fft returned; A holds its argument X
IfftOfFft ==
  /\ pc = "fft"
  /\ ret.status = "return"
  /\ pc' = "ifft"
  /\ A' = ret.value
  /\ ret' = ifft(ret.value)
  /\ UNCHANGED <<b, x>>

\* ifft called on a spectrum with the real part x; A holds its argument X
Ifft ==
  /\ pc = "call"
  /\ pc' = "ifft"
  /\ \E im \in ImagParts(x) :
        /\ A' = [real |-> x, imag |-> im]
        /\ ret' = ifft([real |-> x, imag |-> im])
  /\ UNCHANGED <<b, x>>

NextSignal ==
  \/ Fft
  \/ IfftOfFft
  \/ Ifft

SpecSignal == InitSignal /\ [][NextSignal]_vars

\* two signals of one length: x of samples 0 and 1 with b an impulse or a
\* constant, and short x and b of samples -1, 0 and 1
InitPair ==
  /\ pc = "call"
  /\ A = <<>>
  /\ \/ \E len \in 0..MaxPairLen : \E v \in [1..len -> 0..1] :
           \E u \in 0..len : \E k \in -MaxSample..MaxSample :
              /\ x = Samples(v)
              /\ b = Samples([i \in 1..len |-> IF u = 0 \/ i = u THEN k ELSE 0])
     \/ \E len \in 0..MaxPairShort : \E v \in [1..len -> -1..1] :
           \E w \in [1..len -> -1..1] :
              /\ x = Samples(v)
              /\ b = Samples(w)
  /\ ret = NoValue

NextPair ==
  \/ Fft

\* fft called on the first of two signals
SpecPair == InitPair /\ [][NextPair]_vars

Numbers(v) == [i \in DOMAIN v |-> FromInt(v[i])]

\* x holds the signal and b the kernel
InitConvolution1d ==
  /\ pc = "call"
  /\ A = <<>>
  /\ \E len \in 0..MaxSignalLen : \E v \in [1..len -> -1..1] : x = Numbers(v)
  /\ \E len \in 0..MaxKernelLen : \E v \in [1..len -> -1..1] : b = Numbers(v)
  /\ ret = NoValue

Convolution1d ==
  /\ pc = "call"
  /\ pc' = "convolution1d"
  /\ ret' = convolution1d(x, b)
  /\ UNCHANGED <<A, b, x>>

NextConvolution1d ==
  \/ Convolution1d

SpecConvolution1d == InitConvolution1d /\ [][NextConvolution1d]_vars

\* the images of rows x cols pixels 0 and 1, and the image of the pixels
\* 1, 2, ... row by row
Images(rows, cols) ==
  {[i \in 1..rows |-> [j \in 1..cols |-> FromInt(M[i][j])]] :
     M \in [1..rows -> [1..cols -> 0..1]]}
    \cup {[i \in 1..rows |-> [j \in 1..cols |-> FromInt(cols * (i - 1) + j)]]}

\* the kernels of a side: one entry 1 or -1 and the others 0, and the
\* entries 1, 2, ... row by row
Kernels(side) ==
  {[ki \in 1..side |-> [kj \in 1..side |->
      IF ki = t[1] /\ kj = t[2] THEN FromInt(w) ELSE Zero]] :
     t \in (1..side) \X (1..side), w \in {-1, 1}}
    \cup {[ki \in 1..side |-> [kj \in 1..side |-> FromInt(side * (ki - 1) + kj)]]}

\* sigma as GaussValue takes it
Sigmas == {Zero, NaN} \cup {Norm(1, m, 0) : m \in 1..MaxBase}

\* A holds the image
InitImage ==
  /\ pc = "call"
  /\ \E rows \in 0..MaxImageSide : \E cols \in 0..MaxImageSide :
        /\ rows * cols <= MaxPixels
        /\ A \in Images(rows, cols)
  /\ b = <<>>
  /\ x = <<>>
  /\ ret = NoValue

\* b holds the kernel
Convolution2d ==
  /\ pc = "call"
  /\ pc' = "convolution2d"
  /\ \E side \in 1..MaxKernelSide : \E kernel \in Kernels(side) :
        /\ b' = kernel
        /\ ret' = convolution2d(A, kernel)
  /\ UNCHANGED <<A, x>>

\* b holds the arguments after the image
GaussianBlur ==
  /\ pc = "call"
  /\ pc' = "gaussianBlur"
  /\ \E kernelSize \in 0..MaxKernelSize : \E sigma \in Sigmas :
        /\ b' = [kernelSize |-> kernelSize, sigma |-> sigma]
        /\ ret' = gaussianBlur(A, kernelSize, sigma)
  /\ UNCHANGED <<A, x>>

\* b holds the arguments
CreateGaussianKernel ==
  /\ pc = "call"
  /\ pc' = "createGaussianKernel"
  /\ \E size \in 0..MaxKernelSize : \E sigma \in Sigmas :
        /\ b' = [size |-> size, sigma |-> sigma]
        /\ ret' = Return(createGaussianKernel(size, sigma))
  /\ UNCHANGED <<A, x>>

\* the angles whose cosine and sine are rational, c / h and s / h with
\* c^2 + s^2 = h^2, and the angle NaN
Angles ==
  {[cos |-> Norm(t[1], t[3], 0), sin |-> Norm(t[2], t[3], 0)] :
     t \in {u \in (-MaxHypotenuse..MaxHypotenuse) \X (-MaxHypotenuse..MaxHypotenuse)
                    \X (1..MaxHypotenuse) :
               u[1] * u[1] + u[2] * u[2] = u[3] * u[3]}}
    \cup {[cos |-> NaN, sin |-> NaN]}

\* b holds the angle
ImageRotation ==
  /\ pc = "call"
  /\ pc' = "imageRotation"
  /\ \E angle \in Angles :
        /\ b' = angle
        /\ ret' = imageRotation(A, angle)
  /\ UNCHANGED <<A, x>>

NextImage ==
  \/ Convolution2d
  \/ GaussianBlur
  \/ CreateGaussianKernel
  \/ ImageRotation

SpecImage == InitImage /\ [][NextImage]_vars

\* the pixels -20, 0, 100, 200.5, 255 and 300
Greys == {FromInt(-20), Zero, FromInt(100), Norm(401, 2, 0), FromInt(255), FromInt(300)}

\* A holds the image
InitGreyImage ==
  /\ pc = "call"
  /\ \E rows \in 0..MaxGreySide : \E cols \in 0..MaxGreySide :
        /\ rows * cols <= MaxGreyPixels
        /\ A \in [1..rows -> [1..cols -> Greys]]
  /\ b = <<>>
  /\ x = <<>>
  /\ ret = NoValue

HistogramEqualization ==
  /\ pc = "call"
  /\ pc' = "histogramEqualization"
  /\ ret' = histogramEqualization(A)
  /\ UNCHANGED <<A, b, x>>

NextGreyImage ==
  \/ HistogramEqualization

SpecGreyImage == InitGreyImage /\ [][NextGreyImage]_vars

\* x holds the series and b the window
InitSeries ==
  /\ pc = "call"
  /\ A = <<>>
  /\ b \in 1..MaxWindow
  /\ \E len \in 0..MaxSeriesLen : \E v \in [1..len -> -1..1] : x = Numbers(v)
  /\ ret = NoValue

RollingMean ==
  /\ pc = "call"
  /\ pc' = "rollingMean"
  /\ ret' = Return(rollingMean(x, b))
  /\ UNCHANGED <<A, b, x>>

NextSeries ==
  \/ RollingMean

SpecSeries == InitSeries /\ [][NextSeries]_vars

\* the matrices of rows x cols entries -1, 0 and 1
Rectangles(rows, cols) ==
  {[i \in 1..rows |-> [j \in 1..cols |-> FromInt(M[i][j])]] :
     M \in [1..rows -> [1..cols -> -1..1]]}

\* A holds the first and b the second matrix
InitShapes ==
  /\ pc = "call"
  /\ \E rows \in 0..MaxDim : \E cols \in 0..MaxDim :
        /\ rows * cols <= MaxEntries
        /\ A \in Rectangles(rows, cols)
  /\ \E rows \in 0..MaxDim : \E cols \in 0..MaxDim :
        /\ rows * cols <= MaxEntries
        /\ b \in Rectangles(rows, cols)
  /\ x = <<>>
  /\ ret = NoValue

MatrixMultiply ==
  /\ pc = "call"
  /\ pc' = "matrixMultiply"
  /\ ret' = matrixMultiply(A, b)
  /\ UNCHANGED <<A, b, x>>

MatrixAdd ==
  /\ pc = "call"
  /\ pc' = "matrixAdd"
  /\ ret' = matrixAdd(A, b)
  /\ UNCHANGED <<A, b, x>>

\* dotProduct called on a row of A and a row of b; x holds the two vectors
DotProduct ==
  /\ pc = "call"
  /\ pc' = "dotProduct"
  /\ \E i \in DOMAIN A : \E j \in DOMAIN b :
        /\ x' = <<A[i], b[j]>>
        /\ ret' = dotProduct(A[i], b[j])
  /\ UNCHANGED <<A, b>>

NextShapes ==
  \/ MatrixMultiply
  \/ MatrixAdd
  \/ DotProduct

SpecShapes == InitShapes /\ [][NextShapes]_vars

IsSquareNumber(k) == \E r \in 0..k : r * r = k

RECURSIVE SquareSum(_, _)
SquareSum(v, i) == IF i > Len(v) THEN 0 ELSE v[i] * v[i] + SquareSum(v, i + 1)

\* x holds the vector: integers whose squares sum to a square, times a scale
InitVector ==
  /\ pc = "call"
  /\ A = <<>>
  /\ b = <<>>
  /\ \E len \in 0..MaxVecLen : \E v \in [1..len -> -MaxCoord..MaxCoord] :
        \E s \in Scales :
           /\ IsSquareNumber(SquareSum(v, 1))
           /\ x = [i \in 1..len |-> Mul(FromInt(v[i]), s)]
  /\ ret = NoValue

VectorNormalize ==
  /\ pc = "call"
  /\ pc' = "vectorNormalize"
  /\ ret' = Return(vectorNormalize(x))
  /\ UNCHANGED <<A, b, x>>

NextVector ==
  \/ VectorNormalize

SpecVector == InitVector /\ [][NextVector]_vars

\* the arguments as they are when the call begins are kept in x; A and b are
\* the arguments as they are when the call has ended
InitFrame ==
  /\ pc = "call"
  /\ \/ \E n \in 1..2 : \E M \in SquareMatrices(n, -MaxVal..MaxVal) :
           A = Scaled(M, One)
     \/ \E M \in SquareMatrices(3, 0..1) : A = Scaled(M, One)
  /\ b \in Vectors(Len(A))
  /\ x = [matrix |-> A, b |-> b]
  /\ ret = NoValue

MatrixInverseOnHeap ==
  /\ pc = "call"
  /\ pc' = "matrixInverse"
  /\ LET done == matrixInverseOnHeap(CallHeap(A, b), MatrixObject)
     IN  /\ ret' = done.ret
         /\ A' = Contents(done.heap, MatrixObject)
         /\ b' = done.heap[VectorObject]
  /\ UNCHANGED x

LinearEquationSolverOnHeap ==
  /\ pc = "call"
  /\ pc' = "linearEquationSolver"
  /\ LET done == linearEquationSolverOnHeap(CallHeap(A, b), MatrixObject, VectorObject)
     IN  /\ ret' = done.ret
         /\ A' = Contents(done.heap, MatrixObject)
         /\ b' = done.heap[VectorObject]
  /\ UNCHANGED x

LuDecompositionOnHeap ==
  /\ pc = "call"
  /\ pc' = "luDecomposition"
  /\ LET done == luDecompositionOnHeap(CallHeap(A, b), MatrixObject)
     IN  /\ ret' = done.ret
         /\ A' = Contents(done.heap, MatrixObject)
         /\ b' = done.heap[VectorObject]
  /\ UNCHANGED x

MatrixTransposeOnHeap ==
  /\ pc = "call"
  /\ pc' = "matrixTranspose"
  /\ LET done == matrixTransposeOnHeap(CallHeap(A, b), MatrixObject)
     IN  /\ ret' = done.ret
         /\ A' = Contents(done.heap, MatrixObject)
         /\ b' = done.heap[VectorObject]
  /\ UNCHANGED x

NextFrame ==
  \/ MatrixInverseOnHeap
  \/ LinearEquationSolverOnHeap
  \/ LuDecompositionOnHeap
  \/ MatrixTransposeOnHeap

\* the calls with their arrays on the heap
SpecFrame == InitFrame /\ [][NextFrame]_vars

\* The calls of fft one at a time.  A holds the call stack, the outermost call
\* first: the argument s of every call that has not returned yet, and where
\* the call is: at "enter" before line 39, at "even" in fft(even) of line 59,
\* at "callOdd" before line 60, at "odd" in fft(odd), at "combine" after it.
InitCalls ==
  /\ pc = "running"
  /\ \E len \in 0..MaxLen : \E k \in -MaxSample..MaxSample :
        x = Samples([i \in 1..len |-> k])
  /\ A = <<[s |-> x, at |-> "enter"]>>
  /\ b = <<>>
  /\ ret = NoValue

\* the stack when its innermost call has returned to its caller
Returned(stack) ==
  LET rest == SubSeq(stack, 1, Len(stack) - 1)
  IN  IF rest = <<>> THEN rest
      ELSE [rest EXCEPT ![Len(rest)].at =
              IF rest[Len(rest)].at = "even" THEN "callOdd" ELSE "combine"]

\* line 39-41 and line 81: the innermost call returns
FftReturn ==
  /\ pc = "running"
  /\ LET top == A[Len(A)]
     IN  \/ top.at = "enter" /\ Len(top.s) = 1
         \/ top.at = "combine"
  /\ A' = Returned(A)
  /\ IF A' = <<>> THEN pc' = "fft" /\ ret' = fft(x)
     ELSE UNCHANGED <<pc, ret>>
  /\ UNCHANGED <<b, x>>

\* lines 43-45: the error leaves every call on the stack
FftLengthError ==
  /\ pc = "running"
  /\ LET top == A[Len(A)]
     IN  top.at = "enter" /\ Len(top.s) # 1 /\ Len(top.s) % 2 # 0
  /\ pc' = "fft"
  /\ ret' = Throw("Input length must be a power of 2")
  /\ A' = <<>>
  /\ UNCHANGED <<b, x>>

\* the innermost call is about to call fft(even) or fft(odd)
AtCall(top) ==
  \/ top.at = "enter" /\ Len(top.s) # 1 /\ Len(top.s) % 2 = 0
  \/ top.at = "callOdd"

\* lines 59 and 60: fft(even), fft(odd)
FftCall ==
  /\ pc = "running"
  /\ AtCall(A[Len(A)])
  /\ Len(A) < MaxStack
  /\ LET top == A[Len(A)]
     IN  A' = IF top.at = "enter"
              THEN Append([A EXCEPT ![Len(A)].at = "even"],
                          [s |-> EvenSamples(top.s), at |-> "enter"])
              ELSE Append([A EXCEPT ![Len(A)].at = "odd"],
                          [s |-> OddSamples(top.s), at |-> "enter"])
  /\ UNCHANGED <<pc, b, x, ret>>

\* lines 59 and 60 when the call stack is full: the engine throws
FftStackOverflow ==
  /\ pc = "running"
  /\ AtCall(A[Len(A)])
  /\ Len(A) = MaxStack
  /\ pc' = "fft"
  /\ ret' = Throw("RangeError: Maximum call stack size exceeded")
  /\ A' = <<>>
  /\ UNCHANGED <<b, x>>

NextCalls ==
  \/ FftReturn
  \/ FftLengthError
  \/ FftCall
  \/ FftStackOverflow

\* fft call by call
SpecCalls == InitCalls /\ [][NextCalls]_vars

\* the 3 x 3 kernel with the taps in its middle row and zeros elsewhere
MiddleRowKernel(taps) ==
  [ki \in 1..3 |-> [kj \in 1..3 |-> IF ki = 2 THEN taps[kj] ELSE Zero]]

\* x holds the row s and b the taps [a, b, c]
InitRow ==
  /\ pc = "call"
  /\ A = <<>>
  /\ \E len \in 1..MaxSignalLen : \E v \in [1..len -> -1..1] : x = Numbers(v)
  /\ \E v \in [1..3 -> -1..1] : b = Numbers(v)
  /\ ret = NoValue

\* convolution2d called on the image of the one row x
Convolution2dOfRow ==
  /\ pc = "call"
  /\ pc' = "convolution2d"
  /\ ret' = convolution2d(<<x>>, MiddleRowKernel(b))
  /\ UNCHANGED <<A, b, x>>

NextRow ==
  \/ Convolution1d
  \/ Convolution2dOfRow

\* the two convolutions of a row with three taps
SpecRow == InitRow /\ [][NextRow]_vars

----------------------------------------------------------------------------
(* Reference notions the properties are stated with.                       *)

Perms(n) == {p \in [1..n -> 1..n] : \A i, j \in 1..n : p[i] = p[j] => i = j}

Inversions(p) ==
  Cardinality({ij \in (DOMAIN p) \X (DOMAIN p) : ij[1] < ij[2] /\ p[ij[1]] > p[ij[2]]})

RECURSIVE PermProduct(_, _, _)
PermProduct(M, p, i) ==
  IF i > Len(M) THEN One ELSE Mul(M[i][p[i]], PermProduct(M, p, i + 1))

RECURSIVE SumOver(_, _)
SumOver(S, f) ==
  IF S = {} THEN Zero
  ELSE LET e == CHOOSE e \in S : TRUE
       IN  Add(f[e], SumOver(S \ {e}, f))

\* the permutation-sum determinant; 1 for the matrix without rows
LeibnizDet(M) ==
  SumOver(Perms(Len(M)),
          [p \in Perms(Len(M)) |->
             IF Inversions(p) % 2 = 0 THEN PermProduct(M, p, 1)
             ELSE Neg(PermProduct(M, p, 1))])

\* the leading principal minor of order k; 1 for k = 0
LeadingMinor(M, k) == LeibnizDet([i \in 1..k |-> [j \in 1..k |-> M[i][j]]])

Singular(M) == LeibnizDet(M) = Zero

IsSquare(M, n) == Len(M) = n /\ \A i \in 1..n : Len(M[i]) = n

\* P is the product of the square matrices M and N, entry by entry
ProductIs(M, N, P) ==
  IF Len(M) = 0 THEN P = <<>> ELSE matrixMultiply(M, N) = Return(P)

AllFinite(v) == \A i \in DOMAIN v : IsFinite(v[i])

----------------------------------------------------------------------------
(* Properties of matrixInverse and linearEquationSolver.                   *)

C2_SingularFails ==
  /\ (pc = "matrixInverse" /\ Singular(A)) =>
        ret = Throw("Matrix is singular and cannot be inverted")
  /\ (pc = "linearEquationSolver" /\ Singular(A)) =>
        ret = Throw("System has no unique solution")
  /\ (pc = "matrixInverse" /\ ret.status = "return") =>
        \A i \in DOMAIN ret.value : AllFinite(ret.value[i])
  /\ (pc = "linearEquationSolver" /\ ret.status = "return") => AllFinite(ret.value)

\* a singular 3 x 3 system with a non-zero first pivot is rejected by the solver
C2_Witness ==
  /\ pc = "linearEquationSolver"
  /\ Len(A) = 3
  /\ Singular(A)
  /\ A[1][1] # Zero
  /\ A[2][2] # Zero
  /\ ret.status = "throw"

\* a two-row matrix of integers below 2^26 in magnitude, whose products of
\* two entries are exact in doubles, has the determinant zero
SingularInDoubles(M) == DMul(M[1][1], M[2][2]) = DMul(M[1][2], M[2][1])

\* C2: in double-precision arithmetic too, matrixInverse and
\* linearEquationSolver throw on every singular matrix.
C2_SingularFailsInDoubles ==
  ((pc = "matrixInverse" \/ pc = "linearEquationSolver") /\ SingularInDoubles(A))
    => ret.status = "throw"

\* row i of M times the vector v
RowTimes(M, v, i) == SumFrom([j \in 1..Len(v) |-> Mul(M[i][j], v[j])], 1, Len(v), Zero)

----------------------------------------------------------------------------
(* Properties of luDecomposition.                                          *)

LowerUnit(L) ==
  \A i, j \in 1..Len(L) :
     /\ i = j => L[i][j] = One
     /\ i < j => L[i][j] = Zero

Upper(U) == \A i, j \in 1..Len(U) : i > j => U[i][j] = Zero

HasSingularLeadingMinor(M) == \E k \in 1..Len(M) : LeadingMinor(M, k) = Zero

SmallPivot(M, k) ==
  Lt(Abs(LeadingMinor(M, k)), Mul(Tol, Abs(LeadingMinor(M, k - 1))))

----------------------------------------------------------------------------
(* Properties of matrixDeterminant.                                        *)

\* C6: matrixDeterminant(A) is the permutation-sum determinant of A for
\* every square A.
C6_DetIsLeibniz ==
  pc = "matrixDeterminant" => ret = Return(LeibnizDet(A))

\* C7: matrixDeterminant(identityMatrix(n)) is 1 for every n >= 0.
C7_DetOfIdentityIsOne ==
  (pc = "matrixDeterminant" /\ A = identityMatrix(Len(A))) => ret = Return(One)

----------------------------------------------------------------------------
(* Properties of fft.                                                      *)

IsPowerOfTwo(n) == \E e \in 0..n : 2^e = n

\* C9: fft(x) throws 'Input length must be a power of 2' for every length
\* that is not a power of two, the length 0 included, and returns for every
\* length that is one.
C9_FftLengthCheck ==
  pc = "fft" =>
     IF IsPowerOfTwo(Len(x)) THEN ret.status = "return"
     ELSE ret = Throw("Input length must be a power of 2")

\* cos(2 pi t / n) and sin(2 pi t / n) for n in {1, 2, 4}
QuarterCos(t, n) ==
  CASE ((4 * t) \div n) % 4 = 0 -> 1
    [] ((4 * t) \div n) % 4 = 2 -> -1
    [] OTHER -> 0

QuarterSin(t, n) ==
  CASE ((4 * t) \div n) % 4 = 1 -> 1
    [] ((4 * t) \div n) % 4 = 3 -> -1
    [] OTHER -> 0

RECURSIVE SSum(_, _)
SSum(f, i) == IF i > Len(f) THEN SZero ELSE SAdd(f[i], SSum(f, i + 1))

\* real and imaginary part of bin k of the discrete Fourier transform of s
DftReal(s, k) ==
  SSum([m \in 1..Len(s) |-> SMul(SInt(QuarterCos(k * (m - 1), Len(s))), s[m])], 1)

DftImag(s, k) ==
  SSum([m \in 1..Len(s) |-> SMul(SInt(-QuarterSin(k * (m - 1), Len(s))), s[m])], 1)

----------------------------------------------------------------------------

\* the sample-by-sample sum of two signals of one length
SignalSum(s, t) == [i \in DOMAIN s |-> SAdd(s[i], t[i])]

----------------------------------------------------------------------------
(* Properties of ifft.                                                     *)

\* C12: ifft inverts fft on real input: for every real x of a power-of-two
\* length, ifft(fft(x)) equals x sample by sample.
C12_IfftInvertsFft ==
  (pc = "ifft" /\ IsPowerOfTwo(Len(x)) /\ fft(x) = Return(A)) => ret = Return(x)

----------------------------------------------------------------------------
(* Properties of convolution1d.                                            *)

\* entry i (from 0) of the full convolution: the sum of kernel[j] signal[i-j]
\* over the j with 0 <= i - j < len(signal)
FullConvolution(signal, kernel, i) ==
  LET J == {j \in 0..(Len(kernel) - 1) : 0 <= i - j /\ i - j < Len(signal)}
  IN  SumOver(J, [j \in J |-> Mul(kernel[j + 1], signal[i - j + 1])])

\* C14 as stated: for a signal and a kernel of any lengths >= 0,
\* convolution1d returns an array of length len(signal) + len(kernel) - 1
\* whose entry i is the sum of kernel[j] signal[i-j] over the j with
\* 0 <= i - j < len(signal), and with the kernel [1] it returns the signal.
C14_ConvolutionOfAnyLengths ==
  pc = "convolution1d" =>
     /\ ret.status = "return"
     /\ Len(ret.value) = Len(x) + Len(b) - 1
     /\ \A i \in 1..Len(ret.value) : ret.value[i] = FullConvolution(x, b, i - 1)
     /\ b = <<One>> => ret.value = x

\* C14 but for two empty arguments: for a signal and a kernel that are not
\* both empty, convolution1d returns an array of length len(signal) + len(kernel) - 1
\* whose entry i is the sum of kernel[j] signal[i-j] over the j with
\* 0 <= i - j < len(signal), and with the kernel [1] it returns the signal;
\* for two empty arguments it throws a RangeError (invalid array length -1).
C14_ConvolutionUnlessBothEmpty ==
  pc = "convolution1d" =>
     IF Len(x) + Len(b) = 0 THEN ret = Throw("RangeError: Invalid array length")
     ELSE /\ ret.status = "return"
          /\ Len(ret.value) = Len(x) + Len(b) - 1
          /\ \A i \in 1..Len(ret.value) : ret.value[i] = FullConvolution(x, b, i - 1)
          /\ b = <<One>> => ret.value = x

\* a signal of four entries convolved with a kernel of three that is not
\* its own mirror image, with non-zero first and last entries of the result
C14_Witness ==
  /\ pc = "convolution1d"
  /\ Len(x) = 4
  /\ Len(b) = 3
  /\ b[1] # b[3]
  /\ ret.status = "return"
  /\ ret.value[1] # Zero
  /\ ret.value[6] # Zero


----------------------------------------------------------------------------
(* Properties of convolution2d, gaussianBlur and createGaussianKernel.     *)

\* the sum of image[i+ki-pad][j+kj-pad] kernel[ki][kj] over the in-bounds
\* positions (indices from 0)
SameConvolution(image, kernel, i, j) ==
  LET pad == Len(kernel) \div 2
      K == {k \in (0..(Len(kernel) - 1)) \X (0..(Len(kernel) - 1)) :
              /\ 0 <= i + k[1] - pad /\ i + k[1] - pad < Len(image)
              /\ 0 <= j + k[2] - pad /\ j + k[2] - pad < Len(image[1])}
  IN  SumOver(K, [k \in K |-> Mul(image[i + k[1] - pad + 1][j + k[2] - pad + 1],
                                  kernel[k[1] + 1][k[2] + 1])])

\* C15: for an image of one or more rows of one length and a square kernel,
\* of odd side in particular, convolution2d returns a matrix of the shape of
\* the image whose entry (i, j) is the sum of image[i+ki-pad][j+kj-pad]
\* kernel[ki][kj] over the in-bounds positions, pad = floor(side / 2); so
\* does gaussianBlur, with the kernel createGaussianKernel makes.
C15_SameShapeConvolution ==
  (pc \in {"convolution2d", "gaussianBlur"} /\ Len(A) >= 1) =>
     LET kernel == IF pc = "convolution2d" THEN b
                   ELSE createGaussianKernel(b.kernelSize, b.sigma)
     IN  /\ ret.status = "return"
         /\ Len(ret.value) = Len(A)
         /\ \A i \in 1..Len(A) :
               /\ Len(ret.value[i]) = Len(A[i])
               /\ \A j \in 1..Len(A[i]) :
                     ret.value[i][j] = SameConvolution(A, kernel, i - 1, j - 1)

\* a 3 x 3 image convolved with a 3 x 3 kernel whose one non-zero entry is
\* in a corner, the result not zero at the centre
C15_Witness ==
  /\ pc = "convolution2d"
  /\ Len(A) = 3
  /\ Len(A[1]) = 3
  /\ Len(b) = 3
  /\ b[1][3] # Zero
  /\ b[3][1] = Zero
  /\ ret.status = "return"
  /\ ret.value[2][2] # Zero


\* 1e-9
Nano == <<10, 1, 1>>

\* the kernel is size x size, its entries sum to 1 within 1e-9 and none of
\* its entries is greater than the entry at (floor(size/2), floor(size/2))
SumsToOneCentreMax(kernel, size) ==
  LET center == size \div 2
      total == GaussSum(kernel, 1, Zero)
  IN  /\ IsSquare(kernel, size)
      /\ Lt(Abs(Sub(total, One)), Nano)
      /\ \A i, j \in 1..size :
            /\ ~ IsNaN(kernel[i][j])
            /\ ~ Gt(kernel[i][j], kernel[center + 1][center + 1])

\* C16: createGaussianKernel(size, sigma) returns a size x size matrix whose
\* entries sum to 1 within 1e-9, with the maximum at the centre entry
\* (floor(size/2), floor(size/2)), for any size of one or more and any sigma.
C16_KernelSumsToOne ==
  (pc = "createGaussianKernel" /\ b.size >= 1) =>
     /\ ret.status = "return"
     /\ SumsToOneCentreMax(ret.value, b.size)

\* C16 but for the sigmas 0 and NaN: with any other sigma the kernel sums to
\* 1 and has its maximum at the centre; with the sigma 0 or NaN every entry
\* of the kernel is NaN.
C16_KernelSumsToOneUnlessSigmaZero ==
  (pc = "createGaussianKernel" /\ b.size >= 1) =>
     /\ ret.status = "return"
     /\ IF b.sigma = Zero \/ IsNaN(b.sigma)
        THEN \A i, j \in 1..b.size : IsNaN(ret.value[i][j])
        ELSE SumsToOneCentreMax(ret.value, b.size)

\* a kernel of three rows with entries that differ is made
C16_Witness ==
  /\ pc = "createGaussianKernel"
  /\ b.size = 3
  /\ ret.status = "return"
  /\ Lt(ret.value[1][1], ret.value[1][2])
  /\ Lt(ret.value[1][2], ret.value[2][2])


----------------------------------------------------------------------------
(* Properties of imageRotation.                                            *)

\* k is the integer nearest to v, the upper one of two: k - 1/2 <= v < k + 1/2
Nearest(v, k) ==
  /\ Ge(Mul(FromInt(2), v), FromInt(2 * k - 1))
  /\ Lt(Mul(FromInt(2), v), FromInt(2 * k + 1))

\* the pixel (px, py), rotated by the opposite angle about the centre
\* (cols / 2, rows / 2)
InverseMapped(image, angle, px, py) ==
  LET cx == Norm(Len(image[1]), 2, 0)
      cy == Norm(Len(image), 2, 0)
      dx == Sub(FromInt(px), cx)
      dy == Sub(FromInt(py), cy)
  IN  [px |-> Add(cx, Add(Mul(angle.cos, dx), Mul(angle.sin, dy))),
       py |-> Add(cy, Sub(Mul(angle.cos, dy), Mul(angle.sin, dx)))]

\* C17: for an image of one or more rows and any angle, imageRotation
\* returns a matrix of the shape of the image in which every entry is the
\* input pixel at the rounded inverse-mapped source coordinate when that is
\* inside the image and 0 when it is not.
C17_RotationSamplesOrZero ==
  (pc = "imageRotation" /\ Len(A) >= 1) =>
     /\ ret.status = "return"
     /\ Len(ret.value) = Len(A)
     /\ \A py \in 1..Len(A) :
           /\ Len(ret.value[py]) = Len(A[py])
           /\ \A px \in 1..Len(A[py]) :
                 LET src == InverseMapped(A, b, px - 1, py - 1)
                     inside == {p \in (1..Len(A[py])) \X (1..Len(A)) :
                                  /\ Nearest(src.px, p[1] - 1)
                                  /\ Nearest(src.py, p[2] - 1)}
                 IN  /\ \A p \in inside : ret.value[py][px] = A[p[2]][p[1]]
                     /\ inside = {} => ret.value[py][px] = Zero

\* a 3 x 3 image of distinct pixels turned by an angle that is not a multiple
\* of the right angle: a corner falls outside, the centre stays and pixel
\* (0, 1) comes from another place
C17_Witness ==
  /\ pc = "imageRotation"
  /\ Len(A) = 3
  /\ Len(A[1]) = 3
  /\ A[1][1] # Zero
  /\ A[2][1] # A[1][2]
  /\ b.cos = <<3, 5, 0>>
  /\ ret.status = "return"
  /\ \E py, px \in 1..3 : ret.value[py][px] = Zero
  /\ ret.value[2][2] = A[2][2]
  /\ ret.value[1][2] # A[1][2]


----------------------------------------------------------------------------
(* Properties of histogramEqualization.                                    *)

\* the image has pixels, all of one grey level
Uniform(image) ==
  /\ Len(image) >= 1
  /\ Len(image[1]) >= 1
  /\ \A i \in 1..Len(image) : \A j \in 1..Len(image[1]) :
        Level(image[i][j]) = Level(image[1][1])

\* M has the shape of image and numbers from 0 to 255 as entries
SameShapeInRange(image, M) ==
  /\ Len(M) = Len(image)
  /\ \A i \in 1..Len(image) :
        /\ Len(M[i]) = Len(image[i])
        /\ \A j \in 1..Len(image[i]) :
              /\ IsFinite(M[i][j])
              /\ Ge(M[i][j], Zero)
              /\ Ge(FromInt(MaxLevel), M[i][j])

\* C18: for every image of one or more rows, histogramEqualization returns a
\* matrix of the shape of the image in which every value is a number from 0
\* to 255.
C18_EqualizedInRange ==
  (pc = "histogramEqualization" /\ Len(A) >= 1) =>
     /\ ret.status = "return"
     /\ SameShapeInRange(A, ret.value)

\* C18 but for the images of one grey level: the values are numbers from 0
\* to 255; for an image of one grey level every value is NaN.
C18_EqualizedInRangeUnlessUniform ==
  (pc = "histogramEqualization" /\ Len(A) >= 1) =>
     /\ ret.status = "return"
     /\ IF Uniform(A)
        THEN \A i \in 1..Len(A) : \A j \in 1..Len(A[i]) : IsNaN(ret.value[i][j])
        ELSE SameShapeInRange(A, ret.value)

\* an image of four pixels of three grey levels is equalized to 0, 128 and 255
C18_Witness ==
  /\ pc = "histogramEqualization"
  /\ Len(A) = 2
  /\ Len(A[1]) = 2
  /\ ret.status = "return"
  /\ \E i, j \in 1..2 : ret.value[i][j] = Zero
  /\ \E i, j \in 1..2 : ret.value[i][j] = FromInt(128)
  /\ \E i, j \in 1..2 : ret.value[i][j] = FromInt(MaxLevel)

\* C19: when every pixel has the same value (totalPixels = cdfMin),
\* histogramEqualization divides by no zero and maps every pixel to itself
\* (to its grey level).
C19_UniformImageUnchanged ==
  (pc = "histogramEqualization" /\ Uniform(A)) =>
     /\ ret.status = "return"
     /\ \A i \in 1..Len(A) : \A j \in 1..Len(A[i]) :
           \/ ret.value[i][j] = A[i][j]
           \/ ret.value[i][j] = FromInt(Level(A[i][j]))


----------------------------------------------------------------------------
(* Properties of rollingMean.                                              *)

\* the arithmetic mean of series[i-window+1..i] (indices from 0)
TrailingMean(series, window, i) ==
  LET W == (i - window + 1)..i
  IN  Div(SumOver(W, [k \in W |-> series[k + 1]]), FromInt(window))

\* C20: for every series and window >= 1, rollingMean returns an array of
\* the length of the series whose entry i is NaN for i < window - 1 and the
\* arithmetic mean of series[i-window+1..i] otherwise; with the window 1 it
\* returns the series.
C20_RollingMeanOfWindow ==
  pc = "rollingMean" =>
     /\ ret.status = "return"
     /\ Len(ret.value) = Len(x)
     /\ \A i \in 0..(Len(x) - 1) :
           ret.value[i + 1] = IF i < b - 1 THEN NaN ELSE TrailingMean(x, b, i)
     /\ b = 1 => ret.value = x

\* a series of five entries averaged over a window of three: two NaN and
\* then means that are not all equal and not all integers
C20_Witness ==
  /\ pc = "rollingMean"
  /\ Len(x) = 5
  /\ b = 3
  /\ ret.status = "return"
  /\ IsNaN(ret.value[2])
  /\ ret.value[3] = <<1, 3, 0>>
  /\ ret.value[4] # ret.value[3]
  /\ IsFinite(ret.value[5])


----------------------------------------------------------------------------
(* Properties of matrixMultiply, matrixAdd and dotProduct.                 *)

\* M and N have the same number of rows and rows of the same lengths
SameShape(M, N) ==
  /\ Len(M) = Len(N)
  /\ \A i \in 1..Len(M) : Len(M[i]) = Len(N[i])

\* C21: incompatible dimensions always give a failure and never a result:
\* matrixMultiply(A, B) fails whenever cols(A) # rows(B), matrixAdd(A, B)
\* whenever A and B differ in shape, dotProduct(a, b) whenever
\* len(a) # len(b).
C21_ShapeMismatchFails ==
  /\ (pc = "matrixMultiply" /\ Len(A) >= 1 /\ Len(A[1]) # Len(b)) =>
        ret.status = "throw"
  /\ (pc = "matrixAdd" /\ ~ SameShape(A, b)) => ret.status = "throw"
  /\ (pc = "dotProduct" /\ Len(x[1]) # Len(x[2])) => ret.status = "throw"

\* C21 as far as it holds: dotProduct throws its error whenever the lengths
\* differ; matrixMultiply fails on non-empty A and B of incompatible
\* dimensions exactly when B has columns and fewer rows than A has columns;
\* matrixAdd fails on a non-empty A exactly when a row of A with entries has
\* no row of B under it.
C21_FailsOnlyOnMissingRow ==
  /\ (pc = "dotProduct" /\ Len(x[1]) # Len(x[2])) =>
        ret = Throw("Vectors must have the same length")
  /\ (pc = "matrixMultiply" /\ Len(A) >= 1 /\ Len(b) >= 1 /\ Len(A[1]) # Len(b)) =>
        (ret.status = "throw" <=> (Len(b[1]) > 0 /\ Len(A[1]) > Len(b)))
  /\ (pc = "matrixAdd" /\ Len(A) >= 1 /\ ~ SameShape(A, b)) =>
        (ret.status = "throw" <=> (Len(A[1]) > 0 /\ Len(A) > Len(b)))

\* matrixMultiply and matrixAdd return for a 1 x 1 matrix A and a 2 x 1
\* matrix B
C21_Witness ==
  /\ pc \in {"matrixMultiply", "matrixAdd"}
  /\ Len(A) = 1 /\ Len(A[1]) = 1
  /\ Len(b) = 2 /\ Len(b[1]) = 1
  /\ ret.status = "return"


----------------------------------------------------------------------------
(* Properties of vectorNormalize.                                          *)

\* the sum of the squares of the entries of v
NormSquared(v) == SumOver(DOMAIN v, [i \in DOMAIN v |-> Mul(v[i], v[i])])

\* C22: vectorNormalize(v) returns the all-zero vector of the length of v,
\* without error and without NaN entries, when the magnitude of v is exactly
\* zero; otherwise it returns v[i] / magnitude(v) for every i, a vector of
\* length 1.
C22_NormalizeOrZero ==
  pc = "vectorNormalize" =>
     /\ ret.status = "return"
     /\ Len(ret.value) = Len(x)
     /\ IF NormSquared(x) = Zero
        THEN \A i \in 1..Len(x) : ret.value[i] = Zero
        ELSE /\ \E m \in {vectorMagnitude(x)} :
                   /\ Gt(m, Zero)
                   /\ Mul(m, m) = NormSquared(x)
                   /\ \A i \in 1..Len(x) : Mul(ret.value[i], m) = x[i]
             /\ NormSquared(ret.value) = One

\* the zero vector of three entries is returned as it is
C22_Witness ==
  /\ pc = "vectorNormalize"
  /\ x = <<Zero, Zero, Zero>>
  /\ ret = Return(<<Zero, Zero, Zero>>)

\* a vector of three non-zero entries, the first below the tolerance, is
\* normalised
C22_WitnessNormalised ==
  /\ pc = "vectorNormalize"
  /\ Len(x) = 3
  /\ \A i \in 1..3 : x[i] # Zero
  /\ Lt(Abs(x[1]), Tol)
  /\ ret.status = "return"
  /\ ret.value[1] = <<1, 3, 0>>


\* C23: for A and B of one or more rows with cols(A) = rows(B),
\* matrixMultiply(A, B) returns a rows(A) x cols(B) matrix whose entry (i, j)
\* is the sum over k of A[i][k] B[k][j]; with the identity matrix of
\* cols(A) rows as B it returns A.
C23_ProductEntries ==
  (pc = "matrixMultiply" /\ Len(A) >= 1 /\ Len(b) >= 1 /\ Len(A[1]) = Len(b)) =>
     /\ ret.status = "return"
     /\ Len(ret.value) = Len(A)
     /\ \A i \in 1..Len(A) :
           /\ Len(ret.value[i]) = Len(b[1])
           /\ \A j \in 1..Len(b[1]) :
                 ret.value[i][j] =
                    SumOver(1..Len(b), [k \in 1..Len(b) |-> Mul(A[i][k], b[k][j])])
     /\ b = identityMatrix(Len(A[1])) => ret.value = A
     /\ matrixMultiply(A, identityMatrix(Len(A[1]))) = Return(A)

\* a 2 x 2 matrix without zeros multiplied with a 2 x 2 matrix without zeros
C23_Witness ==
  /\ pc = "matrixMultiply"
  /\ Len(A) = 2 /\ Len(A[1]) = 2
  /\ Len(b) = 2 /\ Len(b[1]) = 2
  /\ \A i, j \in 1..2 : A[i][j] # Zero /\ b[i][j] # Zero
  /\ ret.status = "return"
  /\ ret.value[1][1] # Zero
  /\ ret.value # A


----------------------------------------------------------------------------
(* No function changes its arguments.                                       *)

\* the functions on the heap return what the functions on values return
OnHeapAsOnValues ==
  /\ pc = "matrixInverse" => ret = matrixInverse(x.matrix)
  /\ pc = "linearEquationSolver" => ret = linearEquationSolver(x.matrix, x.b)
  /\ pc = "luDecomposition" => ret = luDecomposition(x.matrix)
  /\ pc = "matrixTranspose" => ret = matrixTranspose(x.matrix)

----------------------------------------------------------------------------
(* Partial pivoting.                                                        *)

\* the row maxRow holds the largest absolute value of the column col among
\* the rows col..n, and no row of col..n above it holds that value
LargestLowest(working, col, maxRow, n) ==
  /\ maxRow \in col..n
  /\ \A r \in col..n : Ge(Abs(working[maxRow][col]), Abs(working[r][col]))
  /\ \A r \in col..(maxRow - 1) :
        Lt(Abs(working[r][col]), Abs(working[maxRow][col]))

\* what C25 says of one elimination: at every column that is reached the row
\* chosen is the largest of the column and the lowest such row, the run ends
\* there with the error exactly when that largest value is below the
\* tolerance, and the call throws exactly when some reached column does
PivotingOf(working(_), thrown, n) ==
  /\ \A col \in 1..n :
        working(col).status = "return" =>
          LET W      == working(col).value
              maxRow == FindPivot(W, col, col + 1, col, n)
          IN  /\ LargestLowest(W, col, maxRow, n)
              /\ SwapRows(W, col, maxRow)[col] = W[maxRow]
              /\ (working(col + 1).status = "throw")
                   <=> Lt(Abs(W[maxRow][col]), Tol)
  /\ thrown <=> working(n + 1).status = "throw"

\* C25: in matrixInverse and in linearEquationSolver, at every pivot column
\* the row moved into the pivot position is the lowest row, from the pivot
\* row on, that holds the largest absolute value of that column of the
\* working matrix, and the error is raised exactly when that largest
\* absolute value is below 1e-10.
C25_PartialPivoting ==
  /\ pc = "matrixInverse" =>
       LET working(col) == InverseWorking(A, col)
       IN  /\ PivotingOf(working, ret.status = "throw", Len(A))
           /\ ret = matrixInverse(A)
           /\ ret.status = "throw" =>
                ret = Throw("Matrix is singular and cannot be inverted")
  /\ pc = "linearEquationSolver" =>
       LET working(col) == SolverWorking(A, b, col)
       IN  /\ PivotingOf(working, ret.status = "throw", Len(A))
           /\ ret.status = "throw" => ret = Throw("System has no unique solution")

\* an inversion of a three-row matrix whose first column holds its largest
\* absolute value in the second and in the third row, below a zero
C25_Witness ==
  /\ pc = "matrixInverse"
  /\ ret.status = "return"
  /\ Len(A) = 3
  /\ A[1][1] = Zero
  /\ A[2][1] # Zero
  /\ A[2][1] = A[3][1]

\* a solver run that ends with the error at its second column
C25_WitnessError ==
  /\ pc = "linearEquationSolver"
  /\ ret.status = "throw"
  /\ Len(A) = 2
  /\ A[1][1] # Zero
  /\ A[2][2] # Zero


----------------------------------------------------------------------------
(* The two eliminations agree.                                              *)

\* the product of a matrix with a vector
MatrixTimesVector(M, v) ==
  [i \in 1..Len(M) |-> SumFrom([j \in 1..Len(v) |-> Mul(M[i][j], v[j])], 1, Len(v), Zero)]

\* at every column both runs reach, the rows from the pivot row on hold the
\* same entries in that column and the same row is chosen
SamePivoting(M, rhs) ==
  \A col \in 1..Len(M) :
     LET inverting == InverseWorking(M, col)
         solving   == SolverWorking(M, rhs, col)
     IN  /\ inverting.status = solving.status
         /\ inverting.status = "return" =>
              /\ \A r \in col..Len(M) : inverting.value[r][col] = solving.value[r][col]
              /\ FindPivot(inverting.value, col, col + 1, col, Len(M))
                   = FindPivot(solving.value, col, col + 1, col, Len(M))

\* what C26 says of one matrix and one right-hand side
Agree(M, rhs) ==
  LET inverse  == matrixInverse(M)
      solution == linearEquationSolver(M, rhs)
  IN  /\ inverse.status = "throw" <=> solution.status = "throw"
      /\ SamePivoting(M, rhs)
      /\ inverse.status = "return" =>
           solution = Return(MatrixTimesVector(inverse.value, rhs))

\* C26: matrixInverse and linearEquationSolver fail on the same matrices,
\* choose the same pivot rows among the same candidates at every column, and
\* when they succeed the solution of A x = b is the inverse of A times b.
C26_SolverAgreesWithInverse ==
  /\ pc = "linearEquationSolver" =>
       /\ ret = linearEquationSolver(A, b)
       /\ Agree(A, b)
  /\ pc = "matrixInverse" =>
       /\ ret = matrixInverse(A)
       /\ \A rhs \in Vectors(Len(A)) : Agree(A, rhs)

\* a system of three equations solved after a swap of rows, with a solution
\* that is not zero
C26_Witness ==
  /\ pc = "linearEquationSolver"
  /\ ret.status = "return"
  /\ Len(A) = 3
  /\ A[1][1] = Zero
  /\ A[1][2] # Zero /\ A[1][3] # Zero
  /\ \E i \in 1..3 : ret.value[i] # Zero

\* C26: in double-precision arithmetic too, linearEquationSolver fails on a
\* matrix exactly when matrixInverse fails on it.
C26_FailTogetherInDoubles ==
  pc = "linearEquationSolver" =>
    (ret.status = "throw" <=> matrixInverseInDoubles(A).status = "throw")


----------------------------------------------------------------------------
(* The recursion of fft.                                                    *)

\* C27: every call of fft, the call on the empty array included, ends by
\* returning a spectrum or by throwing the length error: the recursion on the
\* halves reaches the base case or an odd length after finitely many calls.
C27_FftEndsInSpectrumOrLengthError ==
  /\ pc = "fft" =>
       \/ ret.status = "return"
       \/ ret = Throw("Input length must be a power of 2")
  /\ pc = "running" => \A i \in 1..Len(A) : i > 1 => Len(A[i].s) < Len(A[i - 1].s)

\* C27 but for the empty array: the argument of every call within a call is
\* shorter than that call's, the stack never fills, and the run ends as fft
\* on values does
C27_ButForEmpty ==
  /\ Len(x) # 0 =>
       /\ pc = "fft" =>
            /\ ret = fft(x)
            /\ \/ ret.status = "return"
               \/ ret = Throw("Input length must be a power of 2")
       /\ pc = "running" =>
            /\ \A i \in 1..Len(A) : i > 1 => Len(A[i].s) < Len(A[i - 1].s)
            /\ Len(A) < MaxStack
  /\ Len(x) = 0 =>
       /\ pc = "fft" => ret = fft(x)
       /\ pc = "running" => \A i \in 1..Len(A) : A[i].s = <<>>

\* the call on eight samples has ended with a spectrum
C27_Witness ==
  /\ pc = "fft"
  /\ Len(x) = 8
  /\ ret.status = "return"


----------------------------------------------------------------------------
(* The orientation of the kernel in the two convolutions.                   *)

\* entries 1..len(s) of the full convolution, counted from 0
Centred(full, len) == SubSeq(full, 2, len + 1)

Mirrored(taps) == [j \in 1..Len(taps) |-> taps[Len(taps) + 1 - j]]

\* C28: for a one-row image s and a 3 x 3 kernel whose middle row [a, b, c]
\* is its only nonzero row, the row convolution2d returns is the centred
\* slice, of the length of s, of convolution1d(s, [a, b, c]), whether or not
\* a = c.
C28_SameOrientation ==
  /\ pc = "convolution2d" =>
       /\ ret.status = "return"
       /\ ret.value = <<Centred(convolution1d(x, b).value, Len(x))>>
  /\ pc = "convolution1d" =>
       /\ ret.status = "return"
       /\ convolution2d(<<x>>, MiddleRowKernel(b)) = Return(<<Centred(ret.value, Len(x))>>)

\* C28 as far as it holds: convolution2d does not turn the kernel round, so
\* its row is the centred slice of convolution1d with the taps mirrored, and
\* of convolution1d with the taps themselves when a = c
C28_OppositeOrientation ==
  pc = "convolution2d" =>
     /\ ret.status = "return"
     /\ ret.value = <<Centred(convolution1d(x, Mirrored(b)).value, Len(x))>>
     /\ b[1] = b[3] =>
          ret.value = <<Centred(convolution1d(x, b).value, Len(x))>>

\* convolution2d has returned for a row of two pixels and taps with a # c
C28_Witness ==
  /\ pc = "convolution2d"
  /\ ret.status = "return"
  /\ Len(x) = 2
  /\ x[1] # Zero
  /\ b[1] # b[3]


----------------------------------------------------------------------------
(* The order of the grey levels under histogramEqualization.                *)

\* the pixels of an image, as pairs of a row and a column
PixelsOf(image) == {p \in (1..Len(image)) \X (1..MaxGreySide) : p[2] <= Len(image[p[1]])}

LevelAt(image, p) == Level(image[p[1]][p[2]])

\* C29: for an image of at least two grey levels (rounded and clamped),
\* histogramEqualization keeps the order of the levels (a pixel of a level
\* not above another's gets a value not above the other's), gives every
\* pixel of the highest level present 255 and every pixel of the lowest
\* level present 0.
C29_MonotoneOntoFullRange ==
  (/\ pc = "histogramEqualization"
   /\ Len(A) >= 1
   /\ \E p, q \in PixelsOf(A) : LevelAt(A, p) # LevelAt(A, q)) =>
     /\ ret.status = "return"
     /\ \A p, q \in PixelsOf(A) :
           LevelAt(A, p) <= LevelAt(A, q) =>
              Ge(ret.value[q[1]][q[2]], ret.value[p[1]][p[2]])
     /\ \A p \in PixelsOf(A) :
           /\ (\A q \in PixelsOf(A) : LevelAt(A, q) <= LevelAt(A, p)) =>
                 ret.value[p[1]][p[2]] = FromInt(MaxLevel)
           /\ (\A q \in PixelsOf(A) : LevelAt(A, q) >= LevelAt(A, p)) =>
                 ret.value[p[1]][p[2]] = Zero

\* an image of the levels 100 and 201 only, the higher one twice: neither
\* the lowest nor the highest level is 0 or 255 before the call
C29_Witness ==
  /\ pc = "histogramEqualization"
  /\ ret.status = "return"
  /\ Cardinality(PixelsOf(A)) = 3
  /\ \A p \in PixelsOf(A) : LevelAt(A, p) \in {100, 201}
  /\ Cardinality({p \in PixelsOf(A) : LevelAt(A, p) = 201}) = 2
  /\ \E p \in PixelsOf(A) : ret.value[p[1]][p[2]] = Zero


----------------------------------------------------------------------------
(* The pivot of the last column in luDecomposition.                         *)

ProperMinorsNonsingular(M) == \A k \in 1..(Len(M) - 1) : LeadingMinor(M, k) # Zero

C30_Witness ==
  /\ pc = "luDecomposition"
  /\ A = <<<<Zero>>>>
  /\ ret.status = "return"
  /\ ret.value.U[1][1] = Zero

C30_WitnessRejected ==
  /\ pc = "luDecomposition"
  /\ Len(A) = 2
  /\ Singular(A)
  /\ ProperMinorsNonsingular(A)
  /\ ret = Throw("Zero pivot encountered")

====
